---- MODULE Spec2Model ----
(***************************************************************************)
(* A model of the uniform-palace back office: the record store (products,  *)
(* customers, orders, inquiries) and the request handlers that mutate it.  *)
(* Every handler is a sequence of steps, one per database operation it     *)
(* awaits; requests interleave between those steps.  A document loaded by  *)
(* findById is a snapshot held by the request; save() writes back the      *)
(* fields the handler changed on that snapshot.                            *)
(***************************************************************************)
EXTENDS Integers, Sequences, FiniteSets, TLC

\* ------------------------------------------------------------------ bounds
MaxStock == 2        \* largest initial stockQuantity of a product
MaxQty == 2          \* largest quantity of one line item or stock update
MaxLines == 2        \* longest item list of one order-creation request
MaxConc == 2         \* requests in flight at the same time
MaxReqs == 2         \* requests issued in one behaviour with concurrency
MaxSeqReqs == 3      \* requests issued in one behaviour, one at a time
MaxImages == 3      \* images one product holds
MaxImageReqs == 4   \* image requests issued in one behaviour

Products == {"p1", "p2"}
Customers == {"c1"}
MissingCustomer == "c0"
Slots == 1..MaxConc
OrderIds == 1..((IF MaxReqs > MaxSeqReqs THEN MaxReqs ELSE MaxSeqReqs) + 1)
NoOrder == 0

\* ------------------------------------------------------------- the schemas
\* orderSchema.status enum
OrderStatuses ==
    {"draft", "pending", "confirmed", "in-production", "ready", "delivered", "cancelled"}

VARIABLES
    stock,      \* Product.stockQuantity, per product
    cust,       \* Customer documents: totalOrders, totalRevenue
    orders,     \* Order documents, by id; st is absent, stored or deleted
    req,        \* the requests in flight: kind, position, inputs, snapshots
    nStarted,   \* requests issued so far
    stock0,     \* history: the stock before any request
    adjusted,   \* history: products a stock-update request was issued for
    dupLines,   \* history: a creation request listed one product twice
    rt,         \* history: the latest creation and what followed it
    pre,        \* history: the store when the latest request arrived
    last,       \* history: the request that ended last
    moved,      \* history: per product, what stock updates decreased and increased
    images      \* Product.images, per product: the subdocuments in array order

VARIABLES
    inq,        \* Inquiry documents, by id
    customers,  \* Customer documents as inquiry conversion reads and writes them
    ireq,       \* the inquiry requests in flight
    iStarted,   \* inquiry requests issued so far
    assigned,   \* history: saves of convertedTo.customer, per inquiry
    ipre,       \* history: inquiries and customers when the latest request arrived
    ilast       \* history: the inquiry request that ended last

VARIABLES
    now         \* the clock, in calendar months since January of FirstYear

orderVars == <<stock, cust, orders, req, nStarted, stock0, adjusted, dupLines, rt, pre, last,
              moved, images>>
inqVars == <<inq, customers, ireq, iStarted, assigned, ipre, ilast>>
vars == <<stock, cust, orders, req, nStarted, stock0, adjusted, dupLines, rt, pre, last,
          moved, images, inq, customers, ireq, iStarted, assigned, ipre, ilast, now>>

\* ------------------------------------------------------------ pure helpers
RECURSIVE SumTotalPrice(_)
\* items.reduce((sum, item) => sum + item.totalPrice, 0)
SumTotalPrice(items) ==
    IF items = <<>> THEN 0
    ELSE SumTotalPrice(SubSeq(items, 1, Len(items) - 1)) + items[Len(items)].totalPrice

RECURSIVE QtyOf(_, _)
\* total quantity of product p over a list of line items
QtyOf(items, p) ==
    IF items = <<>> THEN 0
    ELSE QtyOf(Tail(items), p) + (IF Head(items).product = p THEN Head(items).quantity ELSE 0)

Max(a, b) == IF a >= b THEN a ELSE b

\* updateStock without its floor at zero
updateStockUnfloored(stockQuantity, quantity, operation) ==
    IF operation = "decrease" THEN stockQuantity - quantity
    ELSE IF operation = "increase" THEN stockQuantity + quantity
    ELSE stockQuantity

\* productSchema.methods.updateStock: the new stockQuantity
updateStock(stockQuantity, quantity, operation) ==
    IF operation = "decrease" THEN Max(0, stockQuantity - quantity)
    ELSE IF operation = "increase" THEN stockQuantity + quantity
    ELSE stockQuantity

\* an availability test that only rejects a product that is out of stock
InsufficientStockOnlyWhenEmpty(stockQuantity, quantity) == stockQuantity = 0

\* the availability test of order creation and add-item
InsufficientStock(stockQuantity, quantity) == stockQuantity < quantity

\* the line item built by the creation loop and by addItem
LineItem(product, quantity, unitPrice) ==
    [product |-> product, quantity |-> quantity, unitPrice |-> unitPrice,
     totalPrice |-> quantity * unitPrice]

\* calculateTotals that leaves the subtotal as it was
calculateTotalsStaleSubtotal(doc) ==
    [doc EXCEPT !.totalAmount = doc.subtotal + doc.tax + doc.shippingCost - doc.discount]

\* orderSchema.methods.calculateTotals, on an in-memory document
calculateTotals(doc) ==
    LET sub == SumTotalPrice(doc.items)
    IN  [doc EXCEPT !.subtotal = sub,
                    !.totalAmount = sub + doc.tax + doc.shippingCost - doc.discount]

\* orderSchema.methods.addItem, on an in-memory document
addItem(doc, product, quantity, unitPrice) ==
    calculateTotals([doc EXCEPT !.items = Append(@, LineItem(product, quantity, unitPrice))])

\* orderSchema.methods.updatePayment, on an in-memory document
updatePayment(doc, amount) ==
    LET paid == doc.paidAmount + amount
    IN  [doc EXCEPT !.paidAmount = paid,
                    !.paymentStatus = IF paid >= doc.totalAmount THEN "paid"
                                      ELSE IF paid > 0 THEN "partial"
                                      ELSE @]

\* a deletion guard that also lets pending orders through
DeletableStatusOrPending(status) == status = "draft" \/ status = "pending"

\* DELETE /api/orders/:id: only draft orders may be deleted
DeletableStatus(status) == status = "draft"

\* POST /api/orders/:id/items: the order can still be modified
ModifiableStatus(status) == status = "draft" \/ status = "pending"

\* ---------------------------------------------------------------- records
\* a Date field of a document that has not been set
NoDate == 0

AbsentOrder ==
    [st |-> "absent", status |-> "draft", customer |-> MissingCustomer,
     orderNumber |-> 0, items |-> <<>>, subtotal |-> 0, tax |-> 0, discount |-> 0,
     shippingCost |-> 0, totalAmount |-> 0, paidAmount |-> 0,
     paymentStatus |-> "pending",
     productionStartDate |-> NoDate, actualCompletionDate |-> NoDate,
     actualDeliveryDate |-> NoDate, statusHistory |-> <<>>]

\* the caller of a guarded route (req.user) and the owner fields of the
\* document the route is about
NoUser == [id |-> "", role |-> "staff", permissions |-> <<>>]
NoResource == [assignedTo |-> "", createdBy |-> ""]

IdleReq ==
    [kind |-> "none", pc |-> "idle", customer |-> MissingCustomer,
     order |-> NoOrder, i |-> 0, orderItems |-> <<>>, subtotal |-> 0,
     number |-> 0, product |-> "p1", quantity |-> 0, unitPrice |-> 0,
     custDoc |-> [st |-> "stored", totalOrders |-> 0, totalRevenue |-> 0],
     prodDoc |-> 0, orderDoc |-> AbsentOrder, floored |-> FALSE, cond |-> FALSE,
     user |-> NoUser, resourceType |-> "", resource |-> NoResource,
     imagesDoc |-> <<>>, imageId |-> 0, isPrimary |-> FALSE]

\* what is remembered of a request that ended: its kind and result, whether a
\* decrease of its hit the floor, whether it met the condition its handler
\* rejects (a line above the stock, an order that is not draft), and the
\* lines its availability loop accepted
NoLast == [kind |-> "none", result |-> "", floored |-> FALSE, cond |-> FALSE,
           accepted |-> 0, emailFailed |-> FALSE]

\* a notification whose failure reaches the handler
NotificationUnwindsUncaught(failed) == failed

\* emailService.send*: what sendMail throws is caught and logged inside the
\* method, and the route catches around the call: a failed notification never
\* reaches the handler's own catch block
NotificationUnwinds(failed) == FALSE

\* the result of a handler that ends with a notification
AfterNotification(failed, success) ==
    IF NotificationUnwinds(failed) THEN "500" ELSE success

InFlight == {r \in Slots : req[r].pc # "idle"}

StoredOrders == {o \in OrderIds : orders[o].st = "stored"}

\* the id the store gives the next inserted order: ids are never used twice
NextOrderId == Cardinality({o \in OrderIds : orders[o].st # "absent"}) + 1

\* Order.generateOrderNumber: count of the month's orders + 1
generateOrderNumber == Cardinality(StoredOrders) + 1

NoRt == [phase |-> "none", order |-> NoOrder, before |-> stock0]

NoOrders == [o \in OrderIds |-> AbsentOrder]
NoStats == [c \in Customers |-> [st |-> "stored", totalOrders |-> 0, totalRevenue |-> 0]]

NoPre == [valid |-> FALSE, stock |-> stock0, cust |-> NoStats, orders |-> NoOrders]

\* ---------------------------------------------------- inquiries: the schemas
MaxInquiries == 3    \* inquiries in the store
FirstYear == 2026    \* the year the clock starts in
FirstMonth == 11     \* the clock at the start: December of FirstYear
LastMonth == 12      \* the clock at its end: January of the next year
MaxInqReqs == 3      \* inquiry requests issued in one behaviour

InquiryIds == 1..MaxInquiries
CustomerIds == 1..(MaxInqReqs + 1)
\* convertedTo.customer of an inquiry that has none
NoCustomer == 0

\* inquirySchema.status enum
InquiryStatuses == {"new", "contacted", "quoted", "converted", "lost", "closed"}

\* inquirySchema.source enum and customerSchema.source enum
InquirySources ==
    {"website", "phone", "email", "walk-in", "referral", "social-media",
     "advertisement", "other"}
CustomerSources ==
    {"website", "referral", "cold-call", "social-media", "advertisement", "other"}

\* the staff user a request acts as, and a user inquiries are assigned to
ActingUser == "staff"
Assignee == "u1"

\* an inquiry as the public form stores it: source at its default, unassigned
NewInquiry(email, company, businessType) ==
    [st |-> "stored", email |-> email, company |-> company,
     businessType |-> businessType, status |-> "new", convertedTo |-> NoCustomer,
     communications |-> 0, notes |-> 0, source |-> "website", assignedTo |-> "",
     inquiryNumber |-> "", inquiryDate |-> 0]

\* no inquiry document under an id
AbsentInquiry == [NewInquiry("", "", "") EXCEPT !.st = "absent"]

\* Date.getFullYear() and Date.getMonth() of the clock
getFullYear(t) == FirstYear + (t \div 12)
getMonth(t) == t % 12

\* String.prototype.padStart
RECURSIVE padStart(_, _, _)
padStart(s, targetLength, padString) ==
    IF Len(s) >= targetLength THEN s
    ELSE padStart(padString \o s, targetLength, padString)

\* the inquiry number of the clock's month after count records
InquiryNumber(t, count) ==
    "INQ" \o ToString(getFullYear(t))
          \o padStart(ToString(getMonth(t) + 1), 2, "0")
          \o padStart(ToString(count + 1), 4, "0")

AbsentCustomer ==
    [st |-> "absent", email |-> "", company |-> "", businessType |-> "",
     status |-> "", notes |-> 0, source |-> "", assignedTo |-> ""]

\* customer.save() runs the schema validators: source must be of the enum
ValidCustomer(doc) == doc.source \in CustomerSources

\* inquirySchema.methods.addNote, on an in-memory document
addNote(doc) == [doc EXCEPT !.notes = @ + 1]

\* inquirySchema.methods.addCommunication, on an in-memory document
addCommunication(doc) == [doc EXCEPT !.communications = @ + 1]

\* inquirySchema.methods.convertToCustomer, on an in-memory document
convertToCustomer(doc, customerId) ==
    [doc EXCEPT !.status = "converted", !.convertedTo = customerId]

\* the guard of convert-to-customer and of DELETE /api/inquiries/:id
AlreadyConverted(doc) == doc.status = "converted" /\ doc.convertedTo # NoCustomer

\* convert-to-customer, existing customer: the inquiry data merged into it
MergeCustomer(customer, inquiry, customerStatus) ==
    [customer EXCEPT
        !.company = IF inquiry.company # "" /\ @ = "" THEN inquiry.company ELSE @,
        !.businessType = IF inquiry.businessType # "" THEN inquiry.businessType ELSE @,
        !.status = customerStatus,
        !.notes = @ + 1]

\* convert-to-customer, no customer with the email: customerData
NewCustomer(inquiry, customerStatus) ==
    [st |-> "stored", email |-> inquiry.email, company |-> inquiry.company,
     businessType |-> inquiry.businessType, status |-> customerStatus, notes |-> 0,
     source |-> inquiry.source,
     assignedTo |-> IF inquiry.assignedTo # "" THEN inquiry.assignedTo ELSE ActingUser]

IdleInqReq ==
    [kind |-> "none", pc |-> "idle", inquiry |-> 1,
     doc |-> NewInquiry("", "", ""), customer |-> NoCustomer,
     cdoc |-> AbsentCustomer, isNewCustomer |-> FALSE, cond |-> FALSE,
     option |-> "prospect"]

\* what is remembered of an inquiry request that ended: kind, result, whether
\* it met the condition its handler rejects, its inquiry, the customerStatus
\* of its body (prospect when the body has none), and the customer it has
\* created or merged into
NoInqLast ==
    [kind |-> "none", result |-> "", cond |-> FALSE, inquiry |-> 1,
     option |-> "prospect", wrote |-> NoCustomer, emailFailed |-> FALSE]

InqInFlight == {r \in Slots : ireq[r].pc # "idle"}

StoredCustomers == {c \in CustomerIds : customers[c].st = "stored"}

\* the _id of the next inserted customer
NextCustomerId == Cardinality(StoredCustomers) + 1

NoCustomers == [c \in CustomerIds |-> AbsentCustomer]

\* the inquiry collections of a back office that has received no inquiry
InqQuiet ==
    /\ inq = [i \in InquiryIds |-> AbsentInquiry]
    /\ customers = NoCustomers
    /\ ireq = [r \in Slots |-> IdleInqReq]
    /\ iStarted = 0
    /\ assigned = [i \in InquiryIds |-> 0]
    /\ ipre = [valid |-> FALSE, inq |-> inq, customers |-> customers]
    /\ ilast = NoInqLast
    /\ now = FirstMonth

\* ------------------------------------------------------------ initial states
\* the history variables before any request
InitHistory ==
    /\ req = [r \in Slots |-> IdleReq]
    /\ nStarted = 0
    /\ stock0 = stock
    /\ adjusted = {}
    /\ dupLines = FALSE
    /\ rt = [phase |-> "none", order |-> NoOrder, before |-> stock]
    /\ pre = [valid |-> FALSE, stock |-> stock, cust |-> NoStats, orders |-> NoOrders]
    /\ last = NoLast
    /\ moved = [p \in Products |-> [decrease |-> 0, increase |-> 0]]
    /\ images = [p \in Products |-> <<>>]

\* a store with products in stock, a customer and no order yet
Init ==
    /\ stock \in [Products -> 1..MaxStock]
    /\ cust = NoStats
    /\ orders = NoOrders
    /\ InitHistory
    /\ InqQuiet

\* the draft order of one line that an earlier creation has left in the store
SeededOrder ==
    [st |-> "stored", status |-> "draft", customer |-> "c1", orderNumber |-> 1,
     items |-> <<[product |-> "p1", quantity |-> 1, unitPrice |-> 1, totalPrice |-> 1]>>,
     subtotal |-> 1, tax |-> 0, discount |-> 0, shippingCost |-> 0, totalAmount |-> 1,
     paidAmount |-> 0, paymentStatus |-> "pending",
     productionStartDate |-> NoDate, actualCompletionDate |-> NoDate,
     actualDeliveryDate |-> NoDate, statusHistory |-> <<>>]

\* the same store after one order has been created
InitSeeded ==
    /\ stock \in [Products -> 0..MaxStock]
    /\ cust = [c \in Customers |-> [st |-> "stored", totalOrders |-> 1, totalRevenue |-> 1]]
    /\ orders = [NoOrders EXCEPT ![1] = SeededOrder]
    /\ InitHistory
    /\ InqQuiet

\* ------------------------------------------------- history of a round trip
\* rt follows one order from its creation to its deletion while no request
\* about anything else runs: creating, created, open, deleting, closed.
RtStart(kind, o) ==
    IF InFlight # {} THEN NoRt
    ELSE IF kind = "create"
         THEN [phase |-> "creating", order |-> NoOrder, before |-> stock]
    ELSE IF rt.phase \in {"created", "open"} /\ o = rt.order
            /\ kind \in {"addItem", "delete", "status", "pay"}
         THEN [rt EXCEPT !.phase = IF kind = "delete" THEN "deleting" ELSE "open"]
    ELSE NoRt

RtFinish(result, o) ==
    IF rt.phase = "creating"
    THEN IF result = "201" THEN [rt EXCEPT !.phase = "created", !.order = o] ELSE NoRt
    ELSE IF rt.phase = "deleting"
    THEN [rt EXCEPT !.phase = IF result = "200" THEN "closed" ELSE "open"]
    ELSE rt

\* a request may arrive: into the lowest free slot, while fewer than conc
\* requests are in flight and fewer than total have been issued
CanStart(r, conc, total) ==
    /\ req[r].pc = "idle"
    /\ \A s \in Slots : s < r => req[s].pc # "idle"
    /\ Cardinality(InFlight) < conc
    /\ nStarted < total

\* the request arrives
Issue(r, q) ==
    /\ req' = [req EXCEPT ![r] = q]
    /\ nStarted' = nStarted + 1
    /\ rt' = RtStart(q.kind, q.order)
    /\ pre' = IF InFlight = {}
              THEN [valid |-> TRUE, stock |-> stock, cust |-> cust, orders |-> orders]
              ELSE NoPre
    /\ UNCHANGED <<moved, images, inqVars, now>>

\* the request ends with an HTTP result; its slot is free again
EndRequest(r, result, floored, cond, failed) ==
    /\ req' = [req EXCEPT ![r] = IdleReq]
    /\ rt' = RtFinish(result, req[r].order)
    /\ last' = [kind |-> req[r].kind, result |-> result, floored |-> floored,
                cond |-> cond, accepted |-> Len(req[r].orderItems),
                emailFailed |-> failed]
    /\ UNCHANGED <<inqVars, now>>

\* the request ends, and it wrote no product
RespondNotified(r, result, floored, cond, failed) ==
    /\ EndRequest(r, result, floored, cond, failed)
    /\ UNCHANGED <<moved, images>>

\* the request ends without having sent a notification
Respond(r, result, floored, cond) == RespondNotified(r, result, floored, cond, FALSE)

\* the request goes on to its next database operation
Goto(r, q) ==
    /\ req' = [req EXCEPT ![r] = q]
    /\ UNCHANGED <<rt, last>>
    /\ UNCHANGED <<moved, images, inqVars, now>>

\* the lines a request body can carry; a body's values are drawn where the
\* handler first reads them
Lines(prices) == [product : Products, quantity : 1..MaxQty, unitPrice : prices]

HasProduct(items, p) == \E i \in 1..Len(items) : items[i].product = p

\* product.save() after updateStock: writes stockQuantity when it changed
SaveStock(p, loaded, new) ==
    stock' = IF new = loaded THEN stock ELSE [stock EXCEPT ![p] = new]

\* --------------------------------------------------------- POST /api/orders
\* the request arrives with a validated body: a customer id and 1..MaxLines
\* items, each with quantity >= 1 and unitPrice >= 0
StartCreate(r, conc, total) ==
    /\ CanStart(r, conc, total)
    /\ Issue(r, [IdleReq EXCEPT !.kind = "create", !.pc = "c_findCustomer"])
    /\ UNCHANGED <<stock, cust, orders, stock0, adjusted, dupLines, last>>

\* Customer.findById(customer); 404 when it does not resolve
CreateFindCustomer(r) ==
    /\ req[r].pc = "c_findCustomer"
    /\ \E c \in Customers \cup {MissingCustomer} :
          IF c \in Customers /\ cust[c].st = "stored"
          THEN Goto(r, [req[r] EXCEPT !.customer = c, !.custDoc = cust[c],
                                      !.pc = "c_number"])
          ELSE Respond(r, "404", FALSE, req[r].cond)
    /\ UNCHANGED <<stock, cust, orders, nStarted, stock0, adjusted, dupLines, pre>>

\* Order.generateOrderNumber(): countDocuments of the month
CreateNumber(r) ==
    /\ req[r].pc = "c_number"
    /\ Goto(r, [req[r] EXCEPT !.number = generateOrderNumber, !.i = 1,
                              !.subtotal = 0, !.orderItems = <<>>, !.pc = "c_check"])
    /\ UNCHANGED <<stock, cust, orders, nStarted, stock0, adjusted, dupLines, pre>>

\* one turn of the availability loop on the next item of the body:
\* Product.findById, the stock test, the line total; after the last item the
\* handler goes on to newOrder.save()
CreateCheck(r, prices) ==
    /\ req[r].pc = "c_check"
    /\ \E item \in Lines(prices), isLast \in BOOLEAN :
          LET q == req[r]
              above == q.cond \/ item.quantity > stock[item.product]
          IN  /\ isLast \/ q.i < MaxLines
              /\ IF InsufficientStock(stock[item.product], item.quantity)
                 THEN /\ Respond(r, "400", FALSE, above)
                      /\ UNCHANGED dupLines
                 ELSE /\ Goto(r, [q EXCEPT
                             !.cond = above,
                             !.subtotal = @ + item.quantity * item.unitPrice,
                             !.orderItems = Append(@,
                                 LineItem(item.product, item.quantity, item.unitPrice)),
                             !.i = @ + 1,
                             !.pc = IF isLast THEN "c_save" ELSE "c_check"])
                      /\ dupLines' = (dupLines \/ HasProduct(q.orderItems, item.product))
    /\ UNCHANGED <<stock, cust, orders, nStarted, stock0, adjusted, pre>>

\* the Order document built from orderData, with the schema defaults
NewOrder(q) ==
    [st |-> "stored", status |-> "draft", customer |-> q.customer,
     orderNumber |-> q.number, items |-> q.orderItems, subtotal |-> q.subtotal,
     tax |-> 0, discount |-> 0, shippingCost |-> 0, totalAmount |-> q.subtotal,
     paidAmount |-> 0, paymentStatus |-> "pending",
     productionStartDate |-> NoDate, actualCompletionDate |-> NoDate,
     actualDeliveryDate |-> NoDate, statusHistory |-> <<>>]

\* newOrder.save(): the insert fails on a duplicate orderNumber (unique index)
CreateSave(r) ==
    /\ req[r].pc = "c_save"
    /\ IF \E o \in StoredOrders : orders[o].orderNumber = req[r].number
       THEN /\ Respond(r, "500", FALSE, req[r].cond)
            /\ UNCHANGED orders
       ELSE /\ orders' = [orders EXCEPT ![NextOrderId] = NewOrder(req[r])]
            /\ Goto(r, [req[r] EXCEPT !.order = NextOrderId, !.pc = "c_stats"])
    /\ UNCHANGED <<stock, cust, nStarted, stock0, adjusted, dupLines, pre>>

\* customerSchema.methods.updateStats on the customer document loaded first
updateStats(doc, orderAmount) ==
    [doc EXCEPT !.totalOrders = @ + 1, !.totalRevenue = @ + orderAmount]

\* customerDoc.updateStats(totalAmount): saves the changed counters; the
\* save finds no document once the customer is deleted
CreateStats(r) ==
    /\ req[r].pc = "c_stats"
    /\ IF cust[req[r].customer].st # "stored"
       THEN /\ Respond(r, "500", FALSE, req[r].cond)
            /\ UNCHANGED cust
       ELSE /\ cust' = [cust EXCEPT ![req[r].customer] =
                           updateStats(req[r].custDoc, req[r].subtotal)]
            /\ Goto(r, [req[r] EXCEPT !.i = 1, !.pc = "c_loadProduct"])
    /\ UNCHANGED <<stock, orders, nStarted, stock0, adjusted, dupLines, pre>>

\* the decrement loop: Product.findById(item.product)
CreateLoadProduct(r) ==
    /\ req[r].pc = "c_loadProduct"
    /\ Goto(r, [req[r] EXCEPT !.prodDoc = stock[req[r].orderItems[req[r].i].product],
                              !.pc = "c_decrease"])
    /\ UNCHANGED <<stock, cust, orders, nStarted, stock0, adjusted, dupLines, pre>>

\* the decrement loop: product.updateStock(item.quantity, 'decrease')
CreateDecrease(r) ==
    /\ req[r].pc = "c_decrease"
    /\ LET q == req[r]
           item == q.orderItems[q.i]
           fl == q.floored \/ q.prodDoc < item.quantity
       IN  /\ SaveStock(item.product, q.prodDoc,
                        updateStock(q.prodDoc, item.quantity, "decrease"))
           /\ IF q.i = Len(q.orderItems)
              THEN \E failed \in BOOLEAN :
                       RespondNotified(r, AfterNotification(failed, "201"), fl,
                                       req[r].cond, failed)
              ELSE Goto(r, [q EXCEPT !.i = @ + 1, !.floored = fl, !.pc = "c_loadProduct"])
    /\ UNCHANGED <<cust, orders, nStarted, stock0, adjusted, dupLines, pre>>

Create(r, prices) ==
    \/ CreateFindCustomer(r)
    \/ CreateNumber(r)
    \/ CreateCheck(r, prices)
    \/ CreateSave(r)
    \/ CreateStats(r)
    \/ CreateLoadProduct(r)
    \/ CreateDecrease(r)

\* orders a staff request can name: every id the store has handed out
KnownOrders == {o \in OrderIds : orders[o].st # "absent"}

\* document.save() of a loaded order: the update finds no document when the
\* order was deleted meanwhile
CanSaveOrder(o) == orders[o].st = "stored"

\* --------------------------------------------------- POST /api/orders/:id/items
\* the request arrives with a validated body: product, quantity >= 1, unitPrice
StartAddItem(r, conc, total) ==
    /\ CanStart(r, conc, total)
    /\ \E o \in KnownOrders :
          Issue(r, [IdleReq EXCEPT !.kind = "addItem", !.pc = "a_findOrder", !.order = o])
    /\ UNCHANGED <<stock, cust, orders, stock0, adjusted, dupLines, last>>

\* Order.findById; 404 when missing, 400 unless the status is draft or pending
AddItemFindOrder(r) ==
    /\ req[r].pc = "a_findOrder"
    /\ LET o == req[r].order
       IN  IF orders[o].st # "stored" THEN Respond(r, "404", FALSE, req[r].cond)
           ELSE IF ~ModifiableStatus(orders[o].status) THEN Respond(r, "400", FALSE, req[r].cond)
           ELSE Goto(r, [req[r] EXCEPT !.orderDoc = orders[o], !.pc = "a_findProduct"])
    /\ UNCHANGED <<stock, cust, orders, nStarted, stock0, adjusted, dupLines, pre>>

\* Product.findById and the stock test
AddItemFindProduct(r, prices) ==
    /\ req[r].pc = "a_findProduct"
    /\ \E l \in Lines(prices) :
          IF InsufficientStock(stock[l.product], l.quantity)
          THEN Respond(r, "400", FALSE, req[r].cond)
          ELSE Goto(r, [req[r] EXCEPT !.product = l.product, !.quantity = l.quantity,
                                      !.unitPrice = l.unitPrice,
                                      !.prodDoc = stock[l.product], !.pc = "a_save"])
    /\ UNCHANGED <<stock, cust, orders, nStarted, stock0, adjusted, dupLines, pre>>

\* the order document after the save of addItem: the pushed item and the
\* totals that differ from the loaded ones
SavedAddItem(db, loaded, doc) ==
    [db EXCEPT !.items = Append(@, doc.items[Len(doc.items)]),
               !.subtotal = IF doc.subtotal = loaded.subtotal THEN @ ELSE doc.subtotal,
               !.totalAmount =
                   IF doc.totalAmount = loaded.totalAmount THEN @ ELSE doc.totalAmount]

\* order.addItem(itemData).  calculateTotals() has already called save() when
\* addItem calls save() again on the same document: the store gets the item
\* and the totals once, and the second save is either accepted or rejected as
\* a save in parallel, which the handler answers with 500.
AddItemSave(r) ==
    /\ req[r].pc = "a_save"
    /\ LET q == req[r]
           doc == addItem(q.orderDoc, q.product, q.quantity, q.unitPrice)
       IN  IF ~CanSaveOrder(q.order)
           THEN /\ Respond(r, "500", FALSE, req[r].cond)
                /\ UNCHANGED orders
           ELSE /\ orders' = [orders EXCEPT ![q.order] = SavedAddItem(@, q.orderDoc, doc)]
                /\ \/ Goto(r, [q EXCEPT !.orderDoc = doc, !.pc = "a_decrease"])
                   \/ Respond(r, "500", FALSE, req[r].cond)
    /\ UNCHANGED <<stock, cust, nStarted, stock0, adjusted, dupLines, pre>>

\* productDoc.updateStock(quantity, 'decrease') on the product loaded before
AddItemDecrease(r) ==
    /\ req[r].pc = "a_decrease"
    /\ LET q == req[r]
       IN  /\ SaveStock(q.product, q.prodDoc, updateStock(q.prodDoc, q.quantity, "decrease"))
           /\ Respond(r, "200", q.prodDoc < q.quantity, req[r].cond)
    /\ UNCHANGED <<cust, orders, nStarted, stock0, adjusted, dupLines, pre>>

AddItem(r, prices) ==
    \/ AddItemFindOrder(r)
    \/ AddItemFindProduct(r, prices)
    \/ AddItemSave(r)
    \/ AddItemDecrease(r)

\* ------------------------------------------------------ DELETE /api/orders/:id
StartDelete(r, conc, total) ==
    /\ CanStart(r, conc, total)
    /\ \E o \in KnownOrders :
          Issue(r, [IdleReq EXCEPT !.kind = "delete", !.pc = "d_find", !.order = o])
    /\ UNCHANGED <<stock, cust, orders, stock0, adjusted, dupLines, last>>

\* Order.findById; 404 when missing, 400 unless the status is draft
DeleteFind(r) ==
    /\ req[r].pc = "d_find"
    /\ LET o == req[r].order
       IN  IF orders[o].st # "stored" THEN Respond(r, "404", FALSE, req[r].cond)
           ELSE IF ~DeletableStatus(orders[o].status)
                THEN Respond(r, "400", FALSE, orders[o].status # "draft")
           ELSE Goto(r, [req[r] EXCEPT !.orderDoc = orders[o], !.i = 1,
                             !.cond = orders[o].status # "draft",
                             !.pc = IF orders[o].items = <<>> THEN "d_delete"
                                    ELSE "d_loadProduct"])
    /\ UNCHANGED <<stock, cust, orders, nStarted, stock0, adjusted, dupLines, pre>>

\* the restore loop: Product.findById(item.product)
DeleteLoadProduct(r) ==
    /\ req[r].pc = "d_loadProduct"
    /\ Goto(r, [req[r] EXCEPT !.prodDoc = stock[req[r].orderDoc.items[req[r].i].product],
                              !.pc = "d_increase"])
    /\ UNCHANGED <<stock, cust, orders, nStarted, stock0, adjusted, dupLines, pre>>

\* the restore loop: product.updateStock(item.quantity, 'increase')
DeleteIncrease(r) ==
    /\ req[r].pc = "d_increase"
    /\ LET q == req[r]
           item == q.orderDoc.items[q.i]
       IN  /\ SaveStock(item.product, q.prodDoc,
                        updateStock(q.prodDoc, item.quantity, "increase"))
           /\ Goto(r, [q EXCEPT !.i = @ + 1,
                           !.pc = IF q.i = Len(q.orderDoc.items) THEN "d_delete"
                                  ELSE "d_loadProduct"])
    /\ UNCHANGED <<cust, orders, nStarted, stock0, adjusted, dupLines, pre>>

\* a deleted order: its id stays taken, its fields are gone
DeletedOrder == [AbsentOrder EXCEPT !.st = "deleted"]

\* Order.findByIdAndDelete
DeleteRemove(r) ==
    /\ req[r].pc = "d_delete"
    /\ orders' = [orders EXCEPT ![req[r].order] =
                      IF @.st = "stored" THEN DeletedOrder ELSE @]
    /\ Respond(r, "200", FALSE, req[r].cond)
    /\ UNCHANGED <<stock, cust, nStarted, stock0, adjusted, dupLines, pre>>

Delete(r) ==
    \/ DeleteFind(r)
    \/ DeleteLoadProduct(r)
    \/ DeleteIncrease(r)
    \/ DeleteRemove(r)

\* --------------------------------------------------- PUT /api/products/:id/stock
\* the request arrives with a validated body: quantity >= 1 and an operation
StartStock(r, conc, total) ==
    /\ CanStart(r, conc, total)
    /\ Issue(r, [IdleReq EXCEPT !.kind = "stock", !.pc = "s_find"])
    /\ UNCHANGED <<stock, cust, orders, stock0, adjusted, dupLines, last>>

\* Product.findById
StockFind(r) ==
    /\ req[r].pc = "s_find"
    /\ \E p \in Products :
          /\ Goto(r, [req[r] EXCEPT !.product = p, !.prodDoc = stock[p], !.pc = "s_save"])
          /\ adjusted' = adjusted \cup {p}
    /\ UNCHANGED <<stock, cust, orders, nStarted, stock0, dupLines, pre>>

\* product.updateStock(quantity, operation)
StockSave(r) ==
    /\ req[r].pc = "s_save"
    /\ \E n \in 1..MaxQty, op \in {"increase", "decrease"} :
          LET q == req[r]
          IN  /\ SaveStock(q.product, q.prodDoc, updateStock(q.prodDoc, n, op))
              /\ EndRequest(r, "200", op = "decrease" /\ q.prodDoc < n, req[r].cond,
                            FALSE)
              /\ moved' = [moved EXCEPT ![q.product][op] = @ + n]
              /\ UNCHANGED images
    /\ UNCHANGED <<cust, orders, nStarted, stock0, adjusted, dupLines, pre>>

Stock(r) ==
    \/ StockFind(r)
    \/ StockSave(r)

\* ------------------------------------------------- POST /api/orders/:id/status
StartStatus(r, conc, total) ==
    /\ CanStart(r, conc, total)
    /\ \E o \in KnownOrders :
          Issue(r, [IdleReq EXCEPT !.kind = "status", !.pc = "t_find", !.order = o])
    /\ UNCHANGED <<stock, cust, orders, stock0, adjusted, dupLines, last>>

\* Order.findById
StatusFind(r) ==
    /\ req[r].pc = "t_find"
    /\ LET o == req[r].order
       IN  IF orders[o].st # "stored" THEN Respond(r, "404", FALSE, req[r].cond)
           ELSE Goto(r, [req[r] EXCEPT !.orderDoc = orders[o], !.pc = "t_save"])
    /\ UNCHANGED <<stock, cust, orders, nStarted, stock0, adjusted, dupLines, pre>>

\* updateStatus that stamps the milestone date whether or not it is set
updateStatusRestamping(doc, newStatus, date) ==
    [doc EXCEPT
        !.status = newStatus,
        !.statusHistory = Append(@, newStatus),
        !.productionStartDate = IF newStatus = "in-production" THEN date ELSE @,
        !.actualCompletionDate = IF newStatus = "ready" THEN date ELSE @,
        !.actualDeliveryDate = IF newStatus = "delivered" THEN date ELSE @]

\* orderSchema.methods.updateStatus, on an in-memory document at the given
\* new Date()
updateStatus(doc, newStatus, date) ==
    [doc EXCEPT
        !.status = newStatus,
        !.statusHistory = Append(@, newStatus),
        !.productionStartDate =
            IF newStatus = "in-production" /\ @ = NoDate THEN date ELSE @,
        !.actualCompletionDate =
            IF newStatus = "ready" /\ @ = NoDate THEN date ELSE @,
        !.actualDeliveryDate =
            IF newStatus = "delivered" /\ @ = NoDate THEN date ELSE @]

\* order.updateStatus(status, user, notes): changes the loaded document and
\* saves the paths it has set
StatusSave(r, statuses) ==
    /\ req[r].pc = "t_save"
    /\ \E s \in statuses :
          LET q == req[r]
          IN  IF ~CanSaveOrder(q.order)
              THEN /\ Respond(r, "500", FALSE, req[r].cond)
                   /\ UNCHANGED orders
              ELSE /\ LET doc == updateStatus(q.orderDoc, s, now)
                      IN  orders' = [orders EXCEPT
                              ![q.order].status = doc.status,
                              ![q.order].statusHistory = Append(@, s),
                              ![q.order].productionStartDate =
                                  IF doc.productionStartDate # q.orderDoc.productionStartDate
                                  THEN doc.productionStartDate ELSE @,
                              ![q.order].actualCompletionDate =
                                  IF doc.actualCompletionDate # q.orderDoc.actualCompletionDate
                                  THEN doc.actualCompletionDate ELSE @,
                              ![q.order].actualDeliveryDate =
                                  IF doc.actualDeliveryDate # q.orderDoc.actualDeliveryDate
                                  THEN doc.actualDeliveryDate ELSE @]
                   /\ \E failed \in BOOLEAN :
                         RespondNotified(r, AfterNotification(failed, "200"), FALSE,
                                         req[r].cond, failed)
    /\ UNCHANGED <<stock, cust, nStarted, stock0, adjusted, dupLines, pre>>

Status(r, statuses) ==
    \/ StatusFind(r)
    \/ StatusSave(r, statuses)

\* ------------------------------------------------ POST /api/orders/:id/payment
StartPay(r, conc, total) ==
    /\ CanStart(r, conc, total)
    /\ \E o \in KnownOrders :
          Issue(r, [IdleReq EXCEPT !.kind = "pay", !.pc = "y_find", !.order = o])
    /\ UNCHANGED <<stock, cust, orders, stock0, adjusted, dupLines, last>>

\* Order.findById
PayFind(r) ==
    /\ req[r].pc = "y_find"
    /\ LET o == req[r].order
       IN  IF orders[o].st # "stored" THEN Respond(r, "404", FALSE, req[r].cond)
           ELSE Goto(r, [req[r] EXCEPT !.orderDoc = orders[o], !.pc = "y_save"])
    /\ UNCHANGED <<stock, cust, orders, nStarted, stock0, adjusted, dupLines, pre>>

\* order.updatePayment(amount): saves paidAmount and, when it changed, paymentStatus
PaySave(r, amounts) ==
    /\ req[r].pc = "y_save"
    /\ \E a \in amounts :
          LET q == req[r]
              doc == updatePayment(q.orderDoc, a)
          IN  IF ~CanSaveOrder(q.order)
              THEN /\ Respond(r, "500", FALSE, req[r].cond)
                   /\ UNCHANGED orders
              ELSE /\ orders' = [orders EXCEPT
                           ![q.order].paidAmount = doc.paidAmount,
                           ![q.order].paymentStatus =
                               IF doc.paymentStatus = q.orderDoc.paymentStatus THEN @
                               ELSE doc.paymentStatus]
                   /\ Respond(r, "200", FALSE, req[r].cond)
    /\ UNCHANGED <<stock, cust, nStarted, stock0, adjusted, dupLines, pre>>

Pay(r, amounts) ==
    \/ PayFind(r)
    \/ PaySave(r, amounts)

\* ------------------------------------------------------- inquiry requests
NoInqPre ==
    [valid |-> FALSE,
     inq |-> [i \in InquiryIds |-> AbsentInquiry],
     customers |-> NoCustomers]

CanStartInq(r, conc, total) ==
    /\ ireq[r].pc = "idle"
    /\ \A s \in Slots : s < r => ireq[s].pc # "idle"
    /\ Cardinality(InqInFlight) < conc
    /\ iStarted < total

\* the request arrives
IssueInq(r, q) ==
    /\ ireq' = [ireq EXCEPT ![r] = q]
    /\ iStarted' = iStarted + 1
    /\ ipre' = IF InqInFlight = {}
               THEN [valid |-> TRUE, inq |-> inq, customers |-> customers]
               ELSE NoInqPre
    /\ UNCHANGED <<ilast, orderVars, now>>

\* the request ends with an HTTP result
RespondInqNotified(r, result, cond, failed) ==
    /\ ireq' = [ireq EXCEPT ![r] = IdleInqReq]
    /\ ilast' = [kind |-> ireq[r].kind, result |-> result, cond |-> cond,
                 inquiry |-> ireq[r].inquiry, option |-> ireq[r].option,
                 wrote |-> IF ireq[r].pc \in {"v_note", "v_convert", "v_communication"}
                           THEN ireq[r].customer ELSE NoCustomer,
                 emailFailed |-> failed]
    /\ UNCHANGED <<iStarted, ipre, orderVars, now>>

\* the request ends without having sent a notification
RespondInq(r, result, cond) == RespondInqNotified(r, result, cond, FALSE)

\* the request goes on to its next database operation
GotoInq(r, q) ==
    /\ ireq' = [ireq EXCEPT ![r] = q]
    /\ UNCHANGED <<iStarted, ipre, ilast, orderVars, now>>

\* a request for inquiry i of the given kind, about to load the inquiry
InqRequest(kind, pc, i) ==
    [IdleInqReq EXCEPT !.kind = kind, !.pc = pc, !.inquiry = i]

\* document.save() of a loaded inquiry finds no document once it is deleted
CanSaveInquiry(i) == inq[i].st = "stored"

\* a lookup that finds no customer
FindCustomerByEmailNever(email) == NoCustomer

\* Customer.findOne({ email }): the first customer with the email, if any
FindCustomerByEmail(email) ==
    LET same == {c \in StoredCustomers : customers[c].email = email}
    IN  IF same = {} THEN NoCustomer
        ELSE CHOOSE c \in same : \A d \in same : c <= d

\* ------------------------------- POST /api/inquiries/:id/convert-to-customer
StartConvert(r, conc, total) ==
    /\ CanStartInq(r, conc, total)
    /\ \E i \in InquiryIds : IssueInq(r, InqRequest("convert", "v_find", i))
    /\ UNCHANGED <<inq, customers, assigned>>

\* the body's customerStatus (default prospect), then Inquiry.findById; 404
\* when missing, 400 when already converted
ConvertFind(r) ==
    /\ ireq[r].pc = "v_find"
    /\ LET i == ireq[r].inquiry
           had == inq[i].convertedTo # NoCustomer
       IN  IF inq[i].st # "stored" THEN RespondInq(r, "404", FALSE)
           ELSE IF AlreadyConverted(inq[i]) THEN RespondInq(r, "400", had)
           ELSE \E customerStatus \in {"prospect", "active"} :
                    GotoInq(r, [ireq[r] EXCEPT !.doc = inq[i], !.cond = had,
                                               !.option = customerStatus,
                                               !.pc = "v_findCustomer"])
    /\ UNCHANGED <<inq, customers, assigned>>

\* Customer.findOne({ email: inquiry.email })
ConvertFindCustomer(r) ==
    /\ ireq[r].pc = "v_findCustomer"
    /\ LET c == FindCustomerByEmail(ireq[r].doc.email)
       IN  IF c # NoCustomer
           THEN GotoInq(r, [ireq[r] EXCEPT !.customer = c, !.cdoc = customers[c],
                                           !.isNewCustomer = FALSE, !.pc = "v_merge"])
           ELSE GotoInq(r, [ireq[r] EXCEPT !.isNewCustomer = TRUE, !.pc = "v_create"])
    /\ UNCHANGED <<inq, customers, assigned>>

\* the existing customer: merge, conversion note, customer.addNote() saves
ConvertMerge(r) ==
    /\ ireq[r].pc = "v_merge"
    /\ LET q == ireq[r]
           merged == MergeCustomer(q.cdoc, q.doc, q.option)
       IN     IF customers[q.customer].st # "stored"
              THEN /\ RespondInq(r, "500", q.cond)
                   /\ UNCHANGED customers
              ELSE /\ customers' = [customers EXCEPT ![q.customer] =
                          [merged EXCEPT !.notes = customers[q.customer].notes + 1]]
                   /\ GotoInq(r, [q EXCEPT !.cdoc = merged, !.pc = "v_convert"])
    /\ UNCHANGED <<inq, assigned>>

\* no customer with the email: new Customer(customerData).save(); a
\* validation error is answered with 500
ConvertCreate(r) ==
    /\ ireq[r].pc = "v_create"
    /\ LET q == ireq[r]
           new == NewCustomer(q.doc, q.option)
       IN  IF ~ValidCustomer(new)
           THEN /\ RespondInq(r, "500", q.cond)
                /\ UNCHANGED customers
           ELSE /\ customers' = [customers EXCEPT ![NextCustomerId] = new]
                /\ GotoInq(r, [q EXCEPT !.customer = NextCustomerId, !.cdoc = new,
                                        !.pc = "v_note"])
    /\ UNCHANGED <<inq, assigned>>

\* the new customer's initial note: customer.addNote()
ConvertNote(r) ==
    /\ ireq[r].pc = "v_note"
    /\ customers' = [customers EXCEPT ![ireq[r].customer].notes = @ + 1]
    /\ GotoInq(r, [ireq[r] EXCEPT !.pc = "v_convert"])
    /\ UNCHANGED <<inq, assigned>>

\* inquiry.convertToCustomer(customer._id)
ConvertSave(r) ==
    /\ ireq[r].pc = "v_convert"
    /\ LET q == ireq[r]
       IN  IF ~CanSaveInquiry(q.inquiry)
           THEN /\ RespondInq(r, "500", q.cond)
                /\ UNCHANGED <<inq, assigned>>
           ELSE /\ inq' = [inq EXCEPT ![q.inquiry] = convertToCustomer(@, q.customer)]
                /\ assigned' = [assigned EXCEPT ![q.inquiry] = @ + 1]
                /\ GotoInq(r, [q EXCEPT !.pc = "v_communication"])
    /\ UNCHANGED customers

\* inquiry.addCommunication(...): the conversion's communication record
ConvertCommunication(r) ==
    /\ ireq[r].pc = "v_communication"
    /\ LET q == ireq[r]
       IN  IF ~CanSaveInquiry(q.inquiry)
           THEN /\ RespondInq(r, "500", q.cond)
                /\ UNCHANGED inq
           ELSE /\ inq' = [inq EXCEPT ![q.inquiry] = addCommunication(@)]
                /\ RespondInq(r, "200", q.cond)
    /\ UNCHANGED <<customers, assigned>>

Convert(r) ==
    \/ ConvertFind(r)
    \/ ConvertFindCustomer(r)
    \/ ConvertMerge(r)
    \/ ConvertCreate(r)
    \/ ConvertNote(r)
    \/ ConvertSave(r)
    \/ ConvertCommunication(r)

\* the attempt that ended last failed after it had written a customer
FailedAfterCustomerWrite ==
    ilast.kind = "convert" /\ ilast.result = "500" /\ ilast.wrote # NoCustomer

\* an awaited operation between the customer write and the inquiry stamp
\* (customer.addNote of the new customer, inquiry.convertToCustomer) rejects;
\* the handler's catch answers 500 and undoes nothing. One attempt is hit:
\* the attempt after a failed one runs through
ConvertFail(r) ==
    /\ ireq[r].pc \in {"v_note", "v_convert"}
    /\ ~FailedAfterCustomerWrite
    /\ RespondInq(r, "500", ireq[r].cond)
    /\ UNCHANGED <<inq, customers, assigned>>

\* ------------------------------------------------------ PUT /api/inquiries/:id
StartUpdate(r, conc, total) ==
    /\ CanStartInq(r, conc, total)
    /\ \E i \in InquiryIds : IssueInq(r, InqRequest("update", "u_update", i))
    /\ UNCHANGED <<inq, customers, assigned>>

\* Inquiry.findByIdAndUpdate(id, updateData): the body carries a status or,
\* with "", an assignedTo
UpdateApply(r, statuses) ==
    /\ ireq[r].pc = "u_update"
    /\ \E s \in statuses \cup {""} :
          LET i == ireq[r].inquiry
          IN  IF inq[i].st # "stored"
              THEN /\ RespondInq(r, "404", FALSE)
                   /\ UNCHANGED inq
              ELSE /\ inq' = [inq EXCEPT ![i].status = IF s = "" THEN @ ELSE s,
                                         ![i].assignedTo = IF s = "" THEN Assignee ELSE @]
                   /\ GotoInq(r, [ireq[r] EXCEPT !.pc = "u_note"])
    /\ UNCHANGED <<customers, assigned>>

\* updatedInquiry.addNote('Inquiry updated: ...')
UpdateNote(r) ==
    /\ ireq[r].pc = "u_note"
    /\ LET i == ireq[r].inquiry
       IN  IF ~CanSaveInquiry(i)
           THEN /\ RespondInq(r, "500", FALSE)
                /\ UNCHANGED inq
           ELSE /\ inq' = [inq EXCEPT ![i] = addNote(@)]
                /\ RespondInq(r, "200", FALSE)
    /\ UNCHANGED <<customers, assigned>>

Update(r, statuses) ==
    \/ UpdateApply(r, statuses)
    \/ UpdateNote(r)

\* ---- POST /api/inquiries/:id/notes, /communications, /assign and /follow-up
StartRecord(r, conc, total) ==
    /\ CanStartInq(r, conc, total)
    /\ \E i \in InquiryIds, kind \in {"note", "communication", "assign", "followUp"} :
          IssueInq(r, InqRequest(kind, "n_find", i))
    /\ UNCHANGED <<inq, customers, assigned>>

\* Inquiry.findById
RecordFind(r) ==
    /\ ireq[r].pc = "n_find"
    /\ IF inq[ireq[r].inquiry].st # "stored" THEN RespondInq(r, "404", FALSE)
       ELSE GotoInq(r, [ireq[r] EXCEPT !.pc = "n_save"])
    /\ UNCHANGED <<inq, customers, assigned>>

\* inquirySchema.methods.assignTo, on an in-memory document
assignTo(doc, userId, withNotes) ==
    LET assignedDoc == [doc EXCEPT !.assignedTo = userId]
    IN  IF withNotes THEN addNote(assignedDoc) ELSE assignedDoc

\* the inquiry after the method the route calls: addNote, addCommunication,
\* assignTo or scheduleFollowUp (fields this model does not hold)
Recorded(doc, kind, withNotes) ==
    IF kind = "note" THEN addNote(doc)
    ELSE IF kind = "communication" THEN addCommunication(doc)
    ELSE IF kind = "assign" THEN assignTo(doc, Assignee, withNotes)
    ELSE doc

\* the save of the method.  assignTo with notes has already saved through
\* addNote() when it calls save() again: the second save is either accepted
\* or rejected as a save in parallel, which the handler answers with 500.
RecordSave(r) ==
    /\ ireq[r].pc = "n_save"
    /\ \E withNotes \in BOOLEAN :
          LET i == ireq[r].inquiry
              kind == ireq[r].kind
          IN  IF ~CanSaveInquiry(i)
              THEN /\ RespondInq(r, "500", FALSE)
                   /\ UNCHANGED inq
              ELSE /\ inq' = [inq EXCEPT ![i] = Recorded(@, kind, withNotes)]
                   /\ \/ \E failed \in IF kind = "followUp" THEN BOOLEAN ELSE {FALSE} :
                            RespondInqNotified(r, AfterNotification(failed, "200"),
                                               FALSE, failed)
                      \/ /\ kind = "assign" /\ withNotes
                         /\ RespondInq(r, "500", FALSE)
    /\ UNCHANGED <<customers, assigned>>

Record(r) ==
    \/ RecordFind(r)
    \/ RecordSave(r)

\* -------------------------------------------------- DELETE /api/inquiries/:id
StartDeleteInquiry(r, conc, total) ==
    /\ CanStartInq(r, conc, total)
    /\ \E i \in InquiryIds : IssueInq(r, InqRequest("delete", "x_find", i))
    /\ UNCHANGED <<inq, customers, assigned>>

\* Inquiry.findById; 404 when missing, 400 when converted
DeleteInquiryFind(r) ==
    /\ ireq[r].pc = "x_find"
    /\ LET i == ireq[r].inquiry
           had == inq[i].convertedTo # NoCustomer
       IN  IF inq[i].st # "stored" THEN RespondInq(r, "404", FALSE)
           ELSE IF AlreadyConverted(inq[i]) THEN RespondInq(r, "400", had)
           ELSE GotoInq(r, [ireq[r] EXCEPT !.cond = had, !.pc = "x_delete"])
    /\ UNCHANGED <<inq, customers, assigned>>

\* Inquiry.findByIdAndDelete
DeleteInquiryRemove(r) ==
    /\ ireq[r].pc = "x_delete"
    /\ inq' = [inq EXCEPT ![ireq[r].inquiry].st = "deleted"]
    /\ RespondInq(r, "200", ireq[r].cond)
    /\ UNCHANGED <<customers, assigned>>

DeleteInquiry(r) ==
    \/ DeleteInquiryFind(r)
    \/ DeleteInquiryRemove(r)

\* ------------------------------------------------------- POST /api/customers
\* emails a customer request of the model carries
CustomerEmails == {"a@x", "b@x"}

\* the customerData of the body, as the schema stores it
CustomerData(email) ==
    [AbsentCustomer EXCEPT !.st = "stored", !.email = email,
                           !.businessType = "school", !.status = "prospect",
                           !.source = "website"]

StartCreateCustomer(r, conc, total) ==
    /\ CanStartInq(r, conc, total)
    /\ IssueInq(r, [IdleInqReq EXCEPT !.kind = "createCustomer", !.pc = "k_find"])
    /\ UNCHANGED <<inq, customers, assigned>>

\* Customer.findOne({ email: customerData.email }); 400 when one exists
CreateCustomerFind(r) ==
    /\ ireq[r].pc = "k_find"
    /\ \E email \in CustomerEmails :
          IF FindCustomerByEmail(email) # NoCustomer
          THEN RespondInq(r, "400", TRUE)
          ELSE GotoInq(r, [ireq[r] EXCEPT !.cdoc = CustomerData(email),
                                          !.pc = "k_save"])
    /\ UNCHANGED <<inq, customers, assigned>>

\* new Customer(customerData).save()
CreateCustomerSave(r) ==
    /\ ireq[r].pc = "k_save"
    /\ customers' = [customers EXCEPT ![NextCustomerId] = ireq[r].cdoc]
    /\ RespondInq(r, "201", FALSE)
    /\ UNCHANGED <<inq, assigned>>

CreateCustomer(r) ==
    \/ CreateCustomerFind(r)
    \/ CreateCustomerSave(r)

\* ---------------------------------------------------- PUT /api/customers/:id
StartUpdateCustomer(r, conc, total) ==
    /\ CanStartInq(r, conc, total)
    /\ \E c \in CustomerIds :
          IssueInq(r, [IdleInqReq EXCEPT !.kind = "updateCustomer",
                                         !.pc = "p_find", !.customer = c])
    /\ UNCHANGED <<inq, customers, assigned>>

\* Customer.findOne({ email, _id: { $ne: id } }); 400 when one exists
UpdateCustomerFind(r) ==
    /\ ireq[r].pc = "p_find"
    /\ \E email \in CustomerEmails :
          IF \E c \in StoredCustomers :
                 customers[c].email = email /\ c # ireq[r].customer
          THEN RespondInq(r, "400", TRUE)
          ELSE GotoInq(r, [ireq[r] EXCEPT !.cdoc = CustomerData(email),
                                          !.pc = "p_update"])
    /\ UNCHANGED <<inq, customers, assigned>>

\* Customer.findByIdAndUpdate(id, updateData); 404 when missing
UpdateCustomerApply(r) ==
    /\ ireq[r].pc = "p_update"
    /\ LET c == ireq[r].customer
       IN  IF customers[c].st # "stored"
           THEN /\ RespondInq(r, "404", FALSE)
                /\ UNCHANGED customers
           ELSE /\ customers' = [customers EXCEPT ![c].email = ireq[r].cdoc.email,
                                                  ![c].businessType = ireq[r].cdoc.businessType]
                /\ RespondInq(r, "200", FALSE)
    /\ UNCHANGED <<inq, assigned>>

UpdateCustomer(r) ==
    \/ UpdateCustomerFind(r)
    \/ UpdateCustomerApply(r)

\* ------------------------------------------------------- POST /api/inquiries
MaxNumReqs == 4      \* requests issued in one behaviour of the numbering

\* ids under which an inquiry has been inserted, deleted ones included
InsertedInquiries == {i \in InquiryIds : inq[i].st # "absent"}

\* the _id of the next inserted inquiry
NextInquiryId == Cardinality(InsertedInquiries) + 1

\* the stored inquiries whose inquiryDate lies in the month of t
MonthRecords(t) ==
    {i \in InquiryIds : inq[i].st = "stored" /\ inq[i].inquiryDate = t}

\* Inquiry.generateInquiryNumber: countDocuments of the month, then the format
generateInquiryNumber == InquiryNumber(now, Cardinality(MonthRecords(now)))

\* an index on inquiryNumber that is not unique: every insert is accepted
UniqueInquiryNumberPlain(doc) == TRUE

\* the unique index on inquiryNumber accepts the insert of doc
UniqueInquiryNumber(doc) ==
    \A i \in InquiryIds :
        inq[i].st = "stored" => inq[i].inquiryNumber # doc.inquiryNumber

SubmitsInFlight == {r \in Slots : ireq[r].kind = "submit"}

StartSubmit(r, conc, total) ==
    /\ CanStartInq(r, conc, total)
    /\ Cardinality(InsertedInquiries) + Cardinality(SubmitsInFlight) < MaxInquiries
    /\ IssueInq(r, [IdleInqReq EXCEPT !.kind = "submit", !.pc = "s_number"])
    /\ UNCHANGED <<inq, customers, assigned>>

\* const inquiryNumber = await Inquiry.generateInquiryNumber()
SubmitNumber(r) ==
    /\ ireq[r].pc = "s_number"
    /\ GotoInq(r, [ireq[r] EXCEPT !.doc.inquiryNumber = generateInquiryNumber,
                                  !.pc = "s_new"])
    /\ UNCHANGED <<inq, customers, assigned>>

\* new Inquiry(inquiryData): the body's fields, inquiryDate defaults to now
SubmitNew(r) ==
    /\ ireq[r].pc = "s_new"
    /\ \E email \in CustomerEmails :
          GotoInq(r, [ireq[r] EXCEPT
                         !.doc = [NewInquiry(email, "acme", "school") EXCEPT
                                     !.inquiryNumber = ireq[r].doc.inquiryNumber,
                                     !.inquiryDate = now],
                         !.pc = "s_save"])
    /\ UNCHANGED <<inq, customers, assigned>>

\* newInquiry.save(): a duplicate inquiryNumber fails the insert, answered 500
SubmitSave(r) ==
    /\ ireq[r].pc = "s_save"
    /\ IF ~UniqueInquiryNumber(ireq[r].doc)
       THEN /\ RespondInq(r, "500", TRUE)
            /\ UNCHANGED inq
       ELSE /\ inq' = [inq EXCEPT ![NextInquiryId] = ireq[r].doc]
            /\ GotoInq(r, [ireq[r] EXCEPT !.inquiry = NextInquiryId,
                                          !.pc = "s_notify"])
    /\ UNCHANGED <<customers, assigned>>

\* emailService.sendNewInquiryNotification and sendCustomerConfirmation, then
\* res.status(201)
SubmitNotify(r) ==
    /\ ireq[r].pc = "s_notify"
    /\ \E failed \in BOOLEAN :
          RespondInqNotified(r, AfterNotification(failed, "201"), FALSE, failed)
    /\ UNCHANGED <<inq, customers, assigned>>

Submit(r) ==
    \/ SubmitNumber(r)
    \/ SubmitNew(r)
    \/ SubmitSave(r)
    \/ SubmitNotify(r)

\* the client sends the submission again after it failed on a duplicate
\* number: the same request, not counted as a new one
Resubmit(r) ==
    /\ InqInFlight = {}
    /\ r = 1
    /\ ilast.kind = "submit" /\ ilast.result = "500" /\ ilast.cond
    /\ GotoInq(r, [IdleInqReq EXCEPT !.kind = "submit", !.pc = "s_number"])
    /\ UNCHANGED <<inq, customers, assigned>>

\* the calendar moves on to the next month
Tick ==
    /\ now < LastMonth
    /\ now' = now + 1
    /\ UNCHANGED <<orderVars, inqVars>>

\* ------------------------------------------------------ PUT /api/products/:id
\* productSchema.reorderLevel default
ReorderLevel == 10

StartProductUpdate(r, conc, total) ==
    /\ CanStart(r, conc, total)
    /\ \E p \in Products :
          Issue(r, [IdleReq EXCEPT !.kind = "product", !.pc = "m_update", !.product = p])
    /\ UNCHANGED <<stock, cust, orders, stock0, adjusted, dupLines, last>>

\* Product.findByIdAndUpdate(id, updateData) with the body's stockQuantity,
\* then the low stock alert when 0 < stockQuantity <= reorderLevel
ProductUpdateApply(r) ==
    /\ req[r].pc = "m_update"
    /\ \E stockQuantity \in 0..MaxStock :
          /\ stock' = [stock EXCEPT ![req[r].product] = stockQuantity]
          /\ IF stockQuantity <= ReorderLevel /\ stockQuantity > 0
             THEN \E failed \in BOOLEAN :
                      RespondNotified(r, AfterNotification(failed, "200"), FALSE,
                                      FALSE, failed)
             ELSE Respond(r, "200", FALSE, FALSE)
    /\ UNCHANGED <<cust, orders, nStarted, stock0, adjusted, dupLines, pre>>

ProductUpdate(r) == ProductUpdateApply(r)

\* ------------------------------------------------------- PUT /api/orders/:id
StartPutOrder(r, conc, total) ==
    /\ CanStart(r, conc, total)
    /\ \E o \in KnownOrders :
          Issue(r, [IdleReq EXCEPT !.kind = "put", !.pc = "u_update", !.order = o])
    /\ UNCHANGED <<stock, cust, orders, stock0, adjusted, dupLines, last>>

\* Order.findByIdAndUpdate(id, updateData) with the body's status; 404 when
\* the order is missing
PutOrderApply(r, statuses) ==
    /\ req[r].pc = "u_update"
    /\ \E s \in statuses :
          LET o == req[r].order
          IN  IF orders[o].st # "stored"
              THEN /\ Respond(r, "404", FALSE, req[r].cond)
                   /\ UNCHANGED orders
              ELSE /\ orders' = [orders EXCEPT ![o].status = s]
                   /\ Goto(r, [req[r] EXCEPT !.pc = "u_note"])
    /\ UNCHANGED <<stock, cust, nStarted, stock0, adjusted, dupLines, pre>>

\* updatedOrder.addNote('Order updated: ...'): a note, no statusHistory entry
PutOrderNote(r) ==
    /\ req[r].pc = "u_note"
    /\ IF ~CanSaveOrder(req[r].order)
       THEN Respond(r, "500", FALSE, req[r].cond)
       ELSE Respond(r, "200", FALSE, req[r].cond)
    /\ UNCHANGED <<stock, cust, orders, nStarted, stock0, adjusted, dupLines, pre>>

PutOrder(r, statuses) ==
    \/ PutOrderApply(r, statuses)
    \/ PutOrderNote(r)

\* ------------------------- PUT /api/customers/:id, on the customer's counters
StartPutCustomer(r, conc, total) ==
    /\ CanStart(r, conc, total)
    /\ \E c \in Customers :
          Issue(r, [IdleReq EXCEPT !.kind = "putCustomer", !.pc = "p_update",
                                   !.customer = c])
    /\ UNCHANGED <<stock, cust, orders, stock0, adjusted, dupLines, last>>

\* Customer.findByIdAndUpdate(id, { ...req.body, lastModifiedBy }): every
\* field of the body is written, totalOrders and totalRevenue included;
\* the body keeps the customer's email, so the email check passes
PutCustomerApply(r) ==
    /\ req[r].pc = "p_update"
    /\ \E totalOrders \in 0..1, totalRevenue \in 0..1 :
          cust' = [cust EXCEPT ![req[r].customer].totalOrders = totalOrders,
                               ![req[r].customer].totalRevenue = totalRevenue]
    /\ Respond(r, "200", FALSE, FALSE)
    /\ UNCHANGED <<stock, orders, nStarted, stock0, adjusted, dupLines, pre>>

\* ---------------------------------------------------- DELETE /api/customers/:id
\* an Order.exists({ customer }) that never finds an order
HasOrdersNever(c) == FALSE

\* Order.exists({ customer: id })
HasOrders(c) == \E o \in StoredOrders : orders[o].customer = c

StartDeleteCustomer(r, conc, total) ==
    /\ CanStart(r, conc, total)
    /\ \E c \in Customers :
          Issue(r, [IdleReq EXCEPT !.kind = "deleteCustomer", !.pc = "k_find",
                                   !.customer = c])
    /\ UNCHANGED <<stock, cust, orders, stock0, adjusted, dupLines, last>>

\* Customer.findById; 404 when missing
DeleteCustomerFind(r) ==
    /\ req[r].pc = "k_find"
    /\ IF cust[req[r].customer].st # "stored"
       THEN Respond(r, "404", FALSE, FALSE)
       ELSE Goto(r, [req[r] EXCEPT !.pc = "k_exists"])
    /\ UNCHANGED <<stock, cust, orders, nStarted, stock0, adjusted, dupLines, pre>>

\* Order.exists; 400 when the customer has orders
DeleteCustomerExists(r) ==
    /\ req[r].pc = "k_exists"
    /\ IF HasOrders(req[r].customer)
       THEN Respond(r, "400", FALSE, TRUE)
       ELSE Goto(r, [req[r] EXCEPT !.pc = "k_delete"])
    /\ UNCHANGED <<stock, cust, orders, nStarted, stock0, adjusted, dupLines, pre>>

\* Customer.findByIdAndDelete
DeleteCustomerRemove(r) ==
    /\ req[r].pc = "k_delete"
    /\ cust' = [cust EXCEPT ![req[r].customer].st = "deleted"]
    /\ Respond(r, "200", FALSE, FALSE)
    /\ UNCHANGED <<stock, orders, nStarted, stock0, adjusted, dupLines, pre>>

DeleteCustomer(r) ==
    \/ DeleteCustomerFind(r)
    \/ DeleteCustomerExists(r)
    \/ DeleteCustomerRemove(r)

\* ------------------------------------------------------------ access control
\* userSchema.permissions: the flags a user document carries
PermissionFlags == {"customers", "products", "orders", "inquiries", "reports", "users"}

\* the resource types canAccessResource loads a document for
ResourceTypes == {"customer", "order", "inquiry"}

\* the flag the routes of a resource type pass to checkPermission, as in
\* checkPermission('customers'), canAccessResource('customer')
RouteFlag(resourceType) ==
    CASE resourceType = "customer" -> "customers"
      [] resourceType = "order" -> "orders"
      [] resourceType = "inquiry" -> "inquiries"

\* req.user.permissions[key]: undefined, so falsy, for a key the schema has not
Permission(user, key) ==
    IF key \in DOMAIN user.permissions THEN user.permissions[key] ELSE FALSE

\* checkPermission(permission): admin, or the flag is set
checkPermission(user, permission) ==
    \/ user.role = "admin"
    \/ Permission(user, permission)

\* canAccessResource(resourceType) for a document that exists: admin, the
\* user the document is assigned to, the user who created it, or
\* permissions[resourceType], the key being the type's own name
canAccessResource(user, resourceType, resource) ==
    \/ user.role = "admin"
    \/ (resource.assignedTo # "" /\ resource.assignedTo = user.id)
    \/ (resource.createdBy # "" /\ resource.createdBy = user.id)
    \/ Permission(user, resourceType)

\* the users of the model: the caller is u1
Caller == "u1"
OwnerIds == {"", "u1", "u2"}

\* a request to a guarded /:id route of an existing document arrives
StartAccess(r, conc, total) ==
    /\ CanStart(r, conc, total)
    /\ \E role \in {"admin", "staff"}, perms \in [PermissionFlags -> BOOLEAN],
          t \in ResourceTypes, a \in OwnerIds, c \in OwnerIds :
          /\ \A f \in PermissionFlags \ {RouteFlag(t)} : perms[f] = (f # "users")
          /\ Issue(r, [IdleReq EXCEPT !.kind = "access", !.pc = "a_permission",
                          !.user = [id |-> Caller, role |-> role, permissions |-> perms],
                          !.resourceType = t,
                          !.resource = [assignedTo |-> a, createdBy |-> c]])
    /\ UNCHANGED <<stock, cust, orders, stock0, adjusted, dupLines, last>>

\* checkPermission in the route's chain: 403 or on to canAccessResource
AccessPermission(r) ==
    /\ req[r].pc = "a_permission"
    /\ IF checkPermission(req[r].user, RouteFlag(req[r].resourceType))
       THEN Goto(r, [req[r] EXCEPT !.pc = "a_resource"])
       ELSE Respond(r, "403", FALSE, FALSE)
    /\ UNCHANGED <<stock, cust, orders, nStarted, stock0, adjusted, dupLines, pre>>

\* canAccessResource in the route's chain: 403 or on to the handler
AccessResource(r) ==
    /\ req[r].pc = "a_resource"
    /\ IF canAccessResource(req[r].user, req[r].resourceType, req[r].resource)
       THEN Respond(r, "next", FALSE, FALSE)
       ELSE Respond(r, "403", FALSE, FALSE)
    /\ UNCHANGED <<stock, cust, orders, nStarted, stock0, adjusted, dupLines, pre>>

\* ------------------------------------------------------------ product images
\* the image ids of the model; an array holds at most one image per id
ImageIds == 1..MaxImages

PrimaryCount(list) == Cardinality({i \in 1..Len(list) : list[i].isPrimary})

\* the _id the array gives a pushed subdocument: one no image of it has
NewImageId(list) ==
    CHOOSE id \in ImageIds : \A i \in 1..Len(list) : list[i].id # id

\* addImage that pushes without clearing the flag of the other images
addImageKeeping(list, imageData) == Append(list, imageData)

\* productSchema.methods.addImage: a primary image clears the flag of every
\* other image, then the image is pushed
addImage(list, imageData) ==
    Append(IF imageData.isPrimary
           THEN [i \in 1..Len(list) |-> [list[i] EXCEPT !.isPrimary = FALSE]]
           ELSE list,
           imageData)

\* images.forEach(img => img.isPrimary = false)
ClearPrimary(list) == [i \in 1..Len(list) |-> [list[i] EXCEPT !.isPrimary = FALSE]]

\* images.splice(imageIndex, 1), the index counted from 0
Splice(list, imageIndex) ==
    [i \in 1..(Len(list) - 1) |-> IF i <= imageIndex THEN list[i] ELSE list[i + 1]]

\* images.id(imageId): the position of the subdocument, 0 when there is none
ImageAt(list, imageId) ==
    IF \E i \in 1..Len(list) : list[i].id = imageId
    THEN CHOOSE i \in 1..Len(list) : list[i].id = imageId
    ELSE 0

\* POST /api/products/:id/images, PUT .../images/:imageId/primary and
\* DELETE .../images/:imageId arrive; imageId is an _id for the first and an
\* array index for the second
StartImage(r, conc, total) ==
    /\ CanStart(r, conc, total)
    /\ \E p \in Products :
          \/ /\ Len(images[p]) < MaxImages
             /\ \E b \in BOOLEAN :
                   Issue(r, [IdleReq EXCEPT !.kind = "addImage", !.pc = "g_find",
                                            !.product = p, !.isPrimary = b])
          \/ \E id \in ImageIds :
                Issue(r, [IdleReq EXCEPT !.kind = "setPrimary", !.pc = "g_find",
                                         !.product = p, !.imageId = id])
          \/ \E n \in 0..MaxImages :
                Issue(r, [IdleReq EXCEPT !.kind = "deleteImage", !.pc = "g_find",
                                         !.product = p, !.imageId = n])
    /\ UNCHANGED <<stock, cust, orders, stock0, adjusted, dupLines, last>>

\* Product.findById
ImageFind(r) ==
    /\ req[r].pc = "g_find"
    /\ Goto(r, [req[r] EXCEPT !.imagesDoc = images[req[r].product], !.pc = "g_save"])
    /\ UNCHANGED <<stock, cust, orders, nStarted, stock0, adjusted, dupLines, pre>>

\* the request ends having saved the product's images, or without a save
ImageRespond(r, result, cond, list) ==
    /\ EndRequest(r, result, FALSE, cond, FALSE)
    /\ images' = [images EXCEPT ![req[r].product] = list]
    /\ UNCHANGED moved

\* product.addImage({ url, alt, isPrimary }) and its save
AddImageSave(r) ==
    /\ req[r].kind = "addImage" /\ req[r].pc = "g_save"
    /\ LET q == req[r]
           list == q.imagesDoc
           imageData == [id |-> NewImageId(list), isPrimary |-> q.isPrimary]
       IN  ImageRespond(r, "200", q.isPrimary /\ PrimaryCount(list) > 0,
                        addImage(list, imageData))
    /\ UNCHANGED <<stock, cust, orders, nStarted, stock0, adjusted, dupLines, pre>>

\* every flag cleared, then the image looked up: 404 without a save when it
\* is missing, else its flag set and the product saved
SetPrimarySave(r) ==
    /\ req[r].kind = "setPrimary" /\ req[r].pc = "g_save"
    /\ LET q == req[r]
           list == ClearPrimary(q.imagesDoc)
           i == ImageAt(list, q.imageId)
       IN  IF i = 0
           THEN ImageRespond(r, "404", FALSE, images[q.product])
           ELSE ImageRespond(r, "200", PrimaryCount(q.imagesDoc) > 0,
                             [list EXCEPT ![i].isPrimary = TRUE])
    /\ UNCHANGED <<stock, cust, orders, nStarted, stock0, adjusted, dupLines, pre>>

\* 400 for an index past the array, else splice and save
DeleteImageSave(r) ==
    /\ req[r].kind = "deleteImage" /\ req[r].pc = "g_save"
    /\ LET q == req[r]
       IN  IF q.imageId < 0 \/ q.imageId >= Len(q.imagesDoc)
           THEN ImageRespond(r, "400", FALSE, images[q.product])
           ELSE ImageRespond(r, "200", FALSE, Splice(q.imagesDoc, q.imageId))
    /\ UNCHANGED <<stock, cust, orders, nStarted, stock0, adjusted, dupLines, pre>>

Image(r) ==
    \/ ImageFind(r)
    \/ AddImageSave(r)
    \/ SetPrimarySave(r)
    \/ DeleteImageSave(r)

\* ---------------------------------------------------------- specifications
\* statuses, prices and amounts the requests of the model carry
StatusInputs == {"draft", "pending", "confirmed", "cancelled"}
ConcPrices == {1}
SeqPrices == {1, 2}
PayAmounts == {1, 2}

\* requests interleave at their database operations
Next ==
    \E r \in Slots :
        \/ StartCreate(r, MaxConc, MaxReqs)
        \/ Create(r, ConcPrices)
        \/ StartAddItem(r, MaxConc, MaxReqs)
        \/ AddItem(r, ConcPrices)
        \/ StartDelete(r, MaxConc, MaxReqs)
        \/ Delete(r)
        \/ StartStock(r, MaxConc, MaxReqs)
        \/ Stock(r)
        \/ StartStatus(r, MaxConc, MaxReqs)
        \/ Status(r, StatusInputs)

Spec == (Init \/ InitSeeded) /\ [][Next]_vars

\* order creations only, interleaving at their database operations
CreateNext ==
    \E r \in Slots :
        \/ StartCreate(r, MaxConc, MaxReqs)
        \/ Create(r, ConcPrices)

CreateSpec == Init /\ [][CreateNext]_vars

\* one request at a time, each running to its response before the next
SeqNext ==
    \E r \in Slots :
        \/ StartCreate(r, 1, MaxSeqReqs)
        \/ Create(r, SeqPrices)
        \/ StartAddItem(r, 1, MaxSeqReqs)
        \/ AddItem(r, SeqPrices)
        \/ StartDelete(r, 1, MaxSeqReqs)
        \/ Delete(r)
        \/ StartStock(r, 1, MaxSeqReqs)
        \/ Stock(r)
        \/ StartStatus(r, 1, MaxSeqReqs)
        \/ Status(r, StatusInputs)
        \/ StartPay(r, 1, MaxSeqReqs)
        \/ Pay(r, PayAmounts)

SeqSpec == Init /\ [][SeqNext]_vars

\* statuses a PUT /api/inquiries/:id of the model carries
InquiryStatusInputs == {"contacted", "converted", "closed"}

\* inquiries received through the public form, and at most one customer
InqInit ==
    /\ stock = [p \in Products |-> MaxStock]
    /\ cust = NoStats
    /\ orders = NoOrders
    /\ InitHistory
    /\ \E received \in [1..2 -> {[NewInquiry(e, c, "school") EXCEPT !.source = s] :
                                    e \in {"a@x", "b@x"}, c \in {"", "acme"},
                                    s \in {"website", "phone"}}] :
          /\ received[1].email = "a@x"
          /\ received[2].company = "acme" /\ received[2].source = "website"
          /\ inq = [i \in InquiryIds |->
                       IF i <= 2
                       THEN [received[i] EXCEPT
                                !.inquiryNumber = InquiryNumber(FirstMonth, i - 1),
                                !.inquiryDate = FirstMonth]
                       ELSE AbsentInquiry]
    /\ customers \in {NoCustomers} \cup
           {[NoCustomers EXCEPT ![1] =
                 [st |-> "stored", email |-> "a@x", company |-> c,
                  businessType |-> "hotel", status |-> "active", notes |-> 0,
                  source |-> "website", assignedTo |-> ""]] :
              c \in {"", "old"}}
    /\ ireq = [r \in Slots |-> IdleInqReq]
    /\ iStarted = 0
    /\ assigned = [i \in InquiryIds |-> 0]
    /\ ipre = NoInqPre
    /\ ilast = NoInqLast
    /\ now = FirstMonth

\* staff requests on inquiries, one at a time
InqNext ==
    \E r \in Slots :
        \/ StartConvert(r, 1, MaxInqReqs)
        \/ Convert(r)
        \/ StartUpdate(r, 1, MaxInqReqs)
        \/ Update(r, InquiryStatusInputs)
        \/ StartRecord(r, 1, MaxInqReqs)
        \/ Record(r)
        \/ StartDeleteInquiry(r, 1, MaxInqReqs)
        \/ DeleteInquiry(r)

InqSpec == InqInit /\ [][InqNext]_vars

\* staff requests on inquiries, interleaving at their database operations
InqConcNext ==
    \E r \in Slots :
        \/ StartConvert(r, MaxConc, MaxReqs)
        \/ Convert(r)
        \/ StartUpdate(r, MaxConc, MaxReqs)
        \/ Update(r, InquiryStatusInputs)
        \/ StartRecord(r, MaxConc, MaxReqs)
        \/ Record(r)
        \/ StartDeleteInquiry(r, MaxConc, MaxReqs)
        \/ DeleteInquiry(r)

InqConcSpec == InqInit /\ [][InqConcNext]_vars

\* customer creations, updates and conversions, interleaving at their
\* database operations
CustNext ==
    \E r \in Slots :
        \/ StartConvert(r, MaxConc, MaxReqs)
        \/ Convert(r)
        \/ StartCreateCustomer(r, MaxConc, MaxReqs)
        \/ CreateCustomer(r)
        \/ StartUpdateCustomer(r, MaxConc, MaxReqs)
        \/ UpdateCustomer(r)

CustSpec == InqInit /\ [][CustNext]_vars

\* inquiries submitted and deleted one request at a time, as months pass
NumNext ==
    \/ Tick
    \/ \E r \in Slots :
        \/ StartSubmit(r, 1, MaxNumReqs)
        \/ Submit(r)
        \/ StartDeleteInquiry(r, 1, MaxNumReqs)
        \/ DeleteInquiry(r)

NumSpec == Init /\ [][NumNext]_vars

\* inquiries submitted by requests that interleave, as months pass
SubmitNext ==
    \/ Tick
    \/ \E r \in Slots :
        \/ StartSubmit(r, MaxConc, MaxInqReqs)
        \/ Submit(r)

SubmitSpec == Init /\ [][SubmitNext]_vars

\* creations of one type that interleave: orders, or inquiries as months pass
NumberingNext ==
    \/ iStarted = 0 /\ CreateNext
    \/ nStarted = 0 /\ SubmitNext

NumberingSpec == Init /\ [][NumberingNext]_vars

MaxNotifyReqs == 2   \* requests issued in one behaviour of the notifications

\* the requests that end with a notification, one at a time
NotifyNext ==
    \E r \in Slots :
        \/ /\ InqInFlight = {} /\ nStarted + iStarted < MaxNotifyReqs
           /\ \/ StartCreate(r, 1, MaxNotifyReqs)
              \/ StartStatus(r, 1, MaxNotifyReqs)
              \/ StartProductUpdate(r, 1, MaxNotifyReqs)
        \/ Create(r, ConcPrices)
        \/ Status(r, StatusInputs)
        \/ ProductUpdate(r)
        \/ /\ InFlight = {} /\ nStarted + iStarted < MaxNotifyReqs
           /\ \/ StartSubmit(r, 1, MaxNotifyReqs)
              \/ StartRecord(r, 1, MaxNotifyReqs)
        \/ Submit(r)
        \/ Record(r)

NotifySpec == Init /\ [][NotifyNext]_vars

\* status updates of the orders in the store, one at a time, as months pass
StatusNext ==
    \/ Tick
    \/ \E r \in Slots :
        \/ StartStatus(r, 1, MaxSeqReqs)
        \/ Status(r, OrderStatuses)

StatusSpec == InitSeeded /\ [][StatusNext]_vars

\* status changes of the orders in the store through both endpoints, one
\* request at a time
OrderPutNext ==
    \E r \in Slots :
        \/ StartStatus(r, 1, MaxSeqReqs)
        \/ Status(r, StatusInputs)
        \/ StartPutOrder(r, 1, MaxSeqReqs)
        \/ PutOrder(r, StatusInputs)

OrderPutSpec == InitSeeded /\ [][OrderPutNext]_vars

\* stock updates that interleave at their database operations
StockNext ==
    \E r \in Slots :
        \/ StartStock(r, MaxConc, MaxSeqReqs)
        \/ Stock(r)

StockSpec == Init /\ [][StockNext]_vars

\* order creations and customer updates, one request at a time
CounterNext ==
    \E r \in Slots :
        \/ StartCreate(r, 1, MaxReqs)
        \/ Create(r, ConcPrices)
        \/ StartPutCustomer(r, 1, MaxReqs)
        \/ PutCustomerApply(r)

CounterSpec == Init /\ [][CounterNext]_vars

\* order creations and customer deletions, one request at a time
RefNext ==
    \E r \in Slots :
        \/ StartCreate(r, 1, MaxSeqReqs)
        \/ Create(r, ConcPrices)
        \/ StartDeleteCustomer(r, 1, MaxSeqReqs)
        \/ DeleteCustomer(r)

RefSpec == Init /\ [][RefNext]_vars

\* requests to guarded routes, one at a time
AccessNext ==
    \E r \in Slots :
        \/ StartAccess(r, 1, MaxReqs)
        \/ AccessPermission(r)
        \/ AccessResource(r)

AccessSpec == Init /\ [][AccessNext]_vars

\* image requests, one at a time
ImageNext ==
    \E r \in Slots :
        \/ StartImage(r, 1, MaxImageReqs)
        \/ Image(r)

ImageSpec == Init /\ [][ImageNext]_vars

\* conversions, one at a time, one of which may fail between its two writes
RetryNext ==
    \E r \in Slots :
        \/ StartConvert(r, 1, MaxInqReqs)
        \/ Convert(r)
        \/ ConvertFail(r)

RetrySpec == InqInit /\ [][RetryNext]_vars

\* submissions and deletions within one month, one request at a time; a
\* submission that failed on a duplicate number is sent again
ResubmitNext ==
    \E r \in Slots :
        \/ StartSubmit(r, 1, MaxNumReqs)
        \/ Submit(r)
        \/ Resubmit(r)
        \/ StartDeleteInquiry(r, 1, MaxNumReqs)
        \/ DeleteInquiry(r)

\* a handler in flight runs on, and a failed submission is sent again
ResubmitSpec ==
    /\ Init
    /\ [][ResubmitNext]_vars
    /\ WF_vars(\E r \in Slots : Submit(r) \/ Resubmit(r))

\* ------------------------------------------------------------- properties
\* the request that ended last ran alone, and nothing has arrived since
RanAlone == pre.valid /\ InFlight = {}

\* the store is as the latest request found it
StoreAsFound == stock = pre.stock /\ cust = pre.cust /\ orders = pre.orders

\* the order inserted last
LatestOrder == NextOrderId - 1

RECURSIVE OrderedUpTo(_, _)
\* units of product p on the stored orders with ids 1..n
OrderedUpTo(n, p) ==
    IF n = 0 THEN 0
    ELSE OrderedUpTo(n - 1, p)
         + (IF orders[n].st = "stored" THEN QtyOf(orders[n].items, p) ELSE 0)

\* units of product p on all stored orders
Ordered(p) == OrderedUpTo(NextOrderId - 1, p)

\* C1: under any interleaving of order creation, add-item, draft deletion and
\* direct stock updates, no product's stockQuantity is ever negative.
C1_StockNeverNegative == \A p \in Products : stock[p] >= 0

\* a decrease larger than the stock it was applied to has been saved
C1_Witness ==
    /\ last.floored
    /\ last.result \in {"200", "201"}
    /\ \E p \in Products : stock[p] = 0

\* C2: an order creation with a line whose quantity exceeds the product's
\* current stock is answered 400; it stores no order and leaves every
\* product's stock and the customer's counters as it found them, also when
\* earlier lines of the same request passed the test.
C2_CreateAboveStockRejected ==
    (last.kind = "create" /\ last.cond)
        => /\ last.result = "400"
           /\ RanAlone => StoreAsFound

\* a creation was rejected on its second line, after its first line passed
C2_Witness ==
    /\ last.kind = "create" /\ last.cond /\ last.result = "400"
    /\ last.accepted >= 1
    /\ RanAlone /\ StoreAsFound

\* C3: after a successful order creation every product's stock is its stock
\* before the request minus the total quantity ordered of it, lines naming the
\* same product counted together.
C3_StockReducedByOrdered ==
    (RanAlone /\ last.kind = "create" /\ last.result = "201")
        => \A p \in Products :
               stock[p] = pre.stock[p] - QtyOf(orders[LatestOrder].items, p)

\* C4: however order creations interleave, the units of a product on the
\* orders that end up stored never exceed the product's stock before them.
C4_NoOversell ==
    ~dupLines => \A p \in Products : Ordered(p) <= stock0[p]

\* C5: creating an order and then deleting it while it is a draft, whatever
\* was added to it in between, leaves every product's stock as it was before
\* the creation.
C5_DeleteRestoresStock == rt.phase = "closed" => stock = rt.before

\* C6: deleting an order whose status is not draft is answered 400; the order
\* stays stored and no product's stock changes.
C6_NonDraftDeleteRejected ==
    (last.kind = "delete" /\ last.cond)
        => /\ last.result = "400"
           /\ RanAlone => (StoreAsFound /\ StoredOrders # {})

\* a deletion of a stored order that is not draft was rejected
C6_Witness ==
    /\ last.kind = "delete" /\ last.cond /\ last.result = "400"
    /\ RanAlone
    /\ \E o \in StoredOrders : orders[o].status # "draft"

\* C7: every stored order has subtotal = the sum of its items' totalPrice and
\* totalAmount = subtotal + tax + shippingCost - discount, after creation and
\* after any addItem.
C7_TotalsConsistent ==
    \A o \in StoredOrders :
        /\ orders[o].subtotal = SumTotalPrice(orders[o].items)
        /\ orders[o].totalAmount =
               orders[o].subtotal + orders[o].tax + orders[o].shippingCost
                   - orders[o].discount

\* an addItem has grown a stored order to two items or more
C7_Witness ==
    /\ last.kind = "addItem" /\ last.result = "200"
    /\ \E o \in StoredOrders : Len(orders[o].items) >= 2 /\ orders[o].subtotal >= 2

\* C8: after any sequence of creation, addItem and updatePayment, an order's
\* paymentStatus is paid exactly when paidAmount >= totalAmount, partial
\* exactly when 0 < paidAmount < totalAmount, and pending otherwise.
C8_PaymentStatusDerived ==
    \A o \in StoredOrders :
        LET d == orders[o]
        IN  d.paymentStatus =
                IF d.paidAmount >= d.totalAmount THEN "paid"
                ELSE IF d.paidAmount > 0 THEN "partial"
                ELSE "pending"

\* the inquiry request that ended last ran alone, and nothing has arrived since
InqRanAlone == ipre.valid /\ InqInFlight = {}

\* C9: a conversion request on an inquiry that already has
\* convertedTo.customer set is answered 400; no customer is created or
\* modified, and the inquiry keeps its status, convertedTo and communications.
C9_ConvertedNotConvertedAgain ==
    (ilast.kind = "convert" /\ ilast.cond)
        => /\ ilast.result = "400"
           /\ InqRanAlone => (inq = ipre.inq /\ customers = ipre.customers)

\* C10: over any sequence of staff operations, an inquiry's
\* convertedTo.customer is saved at most once.
C10_ConvertedToAssignedOnce == \A i \in InquiryIds : assigned[i] <= 1

\* C11: when convert-to-customer merges into an existing customer, every
\* field of the customer that was populated before the conversion keeps its
\* value; only empty fields are filled from the inquiry.
C11_MergeKeepsPopulated ==
    (InqRanAlone /\ ilast.kind = "convert" /\ ilast.result = "200")
        => \A c \in CustomerIds :
               ipre.customers[c].st = "stored"
                   => /\ ipre.customers[c].company # ""
                          => customers[c].company = ipre.customers[c].company
                      /\ ipre.customers[c].businessType # ""
                          => customers[c].businessType = ipre.customers[c].businessType

\* customers stored now that were not stored when the latest request arrived
CreatedCustomers ==
    {c \in CustomerIds : customers[c].st = "stored" /\ ipre.customers[c].st # "stored"}

\* C12: converting a schema-valid inquiry whose email matches no customer,
\* with no options, succeeds: exactly one customer is created, with status
\* prospect, the inquiry's source, the inquiry's assignee or else the acting
\* user, and a note; the inquiry ends converted to that customer.
C12_NewCustomerConversion ==
    LET i == ilast.inquiry
        before == ipre.inq[i]
    IN  (/\ InqRanAlone /\ ilast.kind = "convert" /\ ilast.option = "prospect"
         /\ before.st = "stored" /\ ~AlreadyConverted(before)
         /\ before.source \in InquirySources
         /\ \A c \in CustomerIds :
                ipre.customers[c].st = "stored"
                    => ipre.customers[c].email # before.email)
            => /\ ilast.result = "200"
               /\ Cardinality(CreatedCustomers) = 1
               /\ \A c \in CreatedCustomers :
                      /\ customers[c].status = "prospect"
                      /\ customers[c].source = before.source
                      /\ customers[c].assignedTo =
                             (IF before.assignedTo # "" THEN before.assignedTo
                              ELSE ActingUser)
                      /\ customers[c].notes = 1
                      /\ inq[i].status = "converted"
                      /\ inq[i].convertedTo = c

\* C13: once an inquiry's status has become converted, the inquiry is never
\* deleted, whatever staff operations are applied to it in between.  Stated
\* for the inquiries that convertToCustomer has saved as converted.
C13_ConvertedNeverDeleted ==
    \A i \in InquiryIds : assigned[i] >= 1 => inq[i].st = "stored"

\* C14: a convert-to-customer request is atomic for its caller: when the
\* request ends, with success or with an error, and its customer write
\* (create or merge) has been applied, the inquiry is stored and converted to
\* that customer.  The status, which a PUT running at the same time may
\* overwrite, is left out: convertedTo.customer is written by conversion only.
C14_ConversionAtomic ==
    [][\A r \in Slots :
           (ireq[r].kind = "convert" /\ ireq'[r].pc = "idle" /\ ilast'.wrote # NoCustomer)
               => LET i == ireq[r].inquiry
                  IN  /\ inq'[i].st = "stored"
                      /\ inq'[i].convertedTo = ilast'.wrote]_vars

\* C15: no two stored customers share an email, whatever the interleaving of
\* customer creations, customer updates and conversions.
C15_CustomerEmailUnique ==
    \A c, d \in StoredCustomers :
        customers[c].email = customers[d].email => c = d

\* the value of a string of decimal digits
RECURSIVE ToNumber(_)
ToNumber(s) ==
    IF s = "" THEN 0
    ELSE LET d == SubSeq(s, Len(s), Len(s))
             v == CHOOSE n \in 0..9 : ToString(n) = d
         IN  10 * ToNumber(SubSeq(s, 1, Len(s) - 1)) + v

IsDigits(s) ==
    \A k \in 1..Len(s) : \E n \in 0..9 : SubSeq(s, k, k) = ToString(n)

\* the sequence part of an inquiry number
Sequence(number) == ToNumber(SubSeq(number, 10, Len(number)))

\* C16: when an inquiry is created with no creation running beside it, its
\* number is INQ, the 4-digit year, the 2-digit month and a 4-digit sequence;
\* the sequence is the number of the month's records plus one and is greater
\* than the sequence of every inquiry created earlier in the month.
C16_SequentialNumbering ==
    [][\A r \in Slots :
           (ireq[r].pc = "s_number" /\ ireq'[r].pc = "s_new" /\ InqInFlight = {r})
               => LET number == ireq'[r].doc.inquiryNumber
                  IN  /\ Len(number) = 13
                      /\ SubSeq(number, 1, 3) = "INQ"
                      /\ IsDigits(SubSeq(number, 4, 13))
                      /\ ToNumber(SubSeq(number, 4, 7)) = getFullYear(now)
                      /\ ToNumber(SubSeq(number, 8, 9)) = getMonth(now) + 1
                      /\ Sequence(number) = Cardinality(MonthRecords(now)) + 1
                      /\ \A i \in InsertedInquiries :
                             inq[i].inquiryDate = now
                                 => Sequence(inq[i].inquiryNumber) < Sequence(number)]_vars

StoredInquiries == {i \in InquiryIds : inq[i].st = "stored"}

\* C17: under interleaved creations no two stored inquiries share an
\* inquiryNumber and no two stored orders share an orderNumber; a creation
\* whose number is already stored ends with an error and stores nothing, and
\* one whose number is not stored yet stores exactly its record.
C17_NumbersUnique ==
    /\ [](/\ \A i, j \in StoredInquiries :
                 inq[i].inquiryNumber = inq[j].inquiryNumber => i = j
          /\ \A o, p \in StoredOrders :
                 orders[o].orderNumber = orders[p].orderNumber => o = p)
    /\ [][/\ \A r \in Slots :
                 (ireq[r].pc = "s_save" /\ ireq'[r].pc # "s_save")
                     => IF \E i \in StoredInquiries :
                               inq[i].inquiryNumber = ireq[r].doc.inquiryNumber
                        THEN /\ inq' = inq
                             /\ ireq'[r].pc = "idle" /\ ilast'.result = "500"
                        ELSE \E i \in InquiryIds :
                                /\ inq[i].st = "absent"
                                /\ inq' = [inq EXCEPT ![i] = ireq[r].doc]
          /\ \A r \in Slots :
                 (req[r].pc = "c_save" /\ req'[r].pc # "c_save")
                     => IF \E o \in StoredOrders : orders[o].orderNumber = req[r].number
                        THEN /\ orders' = orders
                             /\ req'[r].pc = "idle" /\ last'.result = "500"
                        ELSE \E o \in OrderIds :
                                /\ orders[o].st = "absent"
                                /\ orders'[o].st = "stored"
                                /\ orders'[o].orderNumber = req[r].number
                                /\ \A p \in OrderIds \ {o} : orders'[p] = orders[p]]_vars

\* two submissions computed the same number; one is stored, the other has just
\* ended with an error
C17_Witness ==
    /\ ilast.kind = "submit" /\ ilast.result = "500"
    /\ InqInFlight = {}
    /\ Cardinality(StoredInquiries) = 1
    /\ iStarted = 2

\* C18: a request whose notification failed ends as it does when the
\* notification is sent: order creation and inquiry submission with 201, order
\* status update, follow-up scheduling and product update with 200, with the
\* record it wrote in the store.
C18_NotificationFailureHarmless ==
    [][/\ \A r \in Slots :
              (req[r].pc # "idle" /\ req'[r].pc = "idle" /\ last'.emailFailed)
                  => /\ req[r].kind \in {"create", "status", "product"}
                     /\ last'.result = IF req[r].kind = "create" THEN "201" ELSE "200"
                     /\ req[r].kind # "product" => orders'[req[r].order].st = "stored"
                     /\ req[r].kind = "product" => stock'[req[r].product] > 0
       /\ \A r \in Slots :
              (ireq[r].pc # "idle" /\ ireq'[r].pc = "idle" /\ ilast'.emailFailed)
                  => /\ ireq[r].kind \in {"submit", "followUp"}
                     /\ ilast'.result = IF ireq[r].kind = "submit" THEN "201" ELSE "200"
                     /\ inq'[ireq[r].inquiry].st = "stored"
                     /\ ireq[r].kind = "submit"
                            => inq'[ireq[r].inquiry].inquiryNumber
                                   = ireq[r].doc.inquiryNumber]_vars

\* an order creation and an inquiry submission have both ended with 201 after
\* their notifications failed
C18_Witness ==
    /\ last.kind = "create" /\ last.emailFailed /\ last.result = "201"
    /\ ilast.kind = "submit" /\ ilast.emailFailed /\ ilast.result = "201"

\* the position of a status in the order's progression
StatusRank(s) ==
    CASE s = "draft" -> 1
      [] s = "pending" -> 2
      [] s = "confirmed" -> 3
      [] s = "in-production" -> 4
      [] s = "ready" -> 5
      [] s = "delivered" -> 6
      [] s = "cancelled" -> 7

\* C19: the status of an order stays, moves to a later status of draft,
\* pending, confirmed, in-production, ready, delivered, or moves to cancelled
\* from a status before delivered; it never leaves delivered or cancelled.
C19_StatusMovesForward ==
    [][\A o \in OrderIds :
           (orders[o].st = "stored" /\ orders'[o].st = "stored")
               => LET from == orders[o].status
                      to == orders'[o].status
                  IN  \/ to = from
                      \/ /\ from \notin {"delivered", "cancelled"}
                         /\ StatusRank(from) < StatusRank(to)]_vars

\* the milestone date of doc that belongs to the status s, NoDate for a status
\* without one
MilestoneDate(doc, s) ==
    IF s = "in-production" THEN doc.productionStartDate
    ELSE IF s = "ready" THEN doc.actualCompletionDate
    ELSE IF s = "delivered" THEN doc.actualDeliveryDate
    ELSE NoDate

\* C20: a status update that sets in-production, ready or delivered while the
\* status's date (productionStartDate, actualCompletionDate,
\* actualDeliveryDate) is unset stamps it with the current date; a date that
\* is set is never changed, and a date is set by no other step.
C20_MilestoneDatesStampedOnce ==
    [][\A o \in OrderIds :
           (orders[o].st = "stored" /\ orders'[o].st = "stored")
               => \A s \in {"in-production", "ready", "delivered"} :
                      LET before == MilestoneDate(orders[o], s)
                          after == MilestoneDate(orders'[o], s)
                          updated == \E r \in Slots :
                                        /\ req[r].pc = "t_save" /\ req[r].order = o
                                        /\ req'[r].pc = "idle"
                                        /\ last'.result = "200"
                                        /\ orders'[o].status = s
                      IN  /\ before # NoDate => after = before
                          /\ (before = NoDate /\ updated) => after = now
                          /\ (before = NoDate /\ ~updated) => after = NoDate]_vars

\* a status update has just set in-production again on an order whose
\* productionStartDate an earlier month's update had stamped
C20_Witness ==
    /\ RanAlone /\ last.kind = "status" /\ last.result = "200"
    /\ \E o \in OrderIds :
          /\ pre.orders[o].st = "stored"
          /\ pre.orders[o].productionStartDate # NoDate
          /\ pre.orders[o].status # "in-production"
          /\ orders[o].status = "in-production"
          /\ orders[o].productionStartDate = FirstMonth
    /\ now = LastMonth
    /\ nStarted = 3

\* C21: an order whose status has been changed since its creation as draft
\* has a statusHistory whose last entry is its current status.
C21_StatusHistoryFollowsStatus ==
    \A o \in StoredOrders :
        (orders[o].status # "draft" \/ orders[o].statusHistory # <<>>)
            => /\ orders[o].statusHistory # <<>>
               /\ orders[o].statusHistory[Len(orders[o].statusHistory)]
                      = orders[o].status

\* C22: the step that moves an order to cancelled adds the quantity of each
\* of its line items back to the product's stockQuantity.
C22_CancelRestoresStock ==
    [][\A o \in OrderIds :
           (/\ orders[o].st = "stored" /\ orders'[o].st = "stored"
            /\ orders[o].status # "cancelled" /\ orders'[o].status = "cancelled")
               => \A p \in Products :
                      stock'[p] = stock[p] + QtyOf(orders[o].items, p)]_vars

\* C23: once the stock updates of a product have all ended and none of them
\* was an increase, its stockQuantity is max(0, initial - sum of the decreased
\* quantities), however the requests interleaved.
C23_DecreasesAddUp ==
    \A p \in Products :
        (InFlight = {} /\ moved[p].increase = 0)
            => stock[p] = Max(0, stock0[p] - moved[p].decrease)

\* C24: a customer's totalOrders and totalRevenue never decrease, and a step
\* changes them only when it is an order creation recording its order for
\* that customer.
C24_CountersOnlyGrowByOrders ==
    [][\A c \in Customers :
           /\ cust'[c].totalOrders >= cust[c].totalOrders
           /\ cust'[c].totalRevenue >= cust[c].totalRevenue
           /\ <<cust'[c].totalOrders, cust'[c].totalRevenue>>
                  # <<cust[c].totalOrders, cust[c].totalRevenue>>
                  => \E r \in Slots : /\ req[r].kind = "create"
                                      /\ req[r].pc = "c_stats"
                                      /\ req[r].customer = c]_vars

\* C25: every stored order's customer is a stored customer, and a request to
\* delete a customer that a stored order refers to ends with 400 and leaves
\* the customer stored.
C25_ReferencedCustomerKept ==
    /\ [](\A o \in StoredOrders : cust[orders[o].customer].st = "stored")
    /\ [][\A r \in Slots :
              (/\ req[r].kind = "deleteCustomer" /\ req'[r].pc = "idle"
               /\ \E o \in StoredOrders : orders[o].customer = req[r].customer)
                  => /\ last'.result = "400"
                     /\ cust'[req[r].customer].st = "stored"]_vars

\* a deletion of a customer with a stored order has just been rejected
C25_Witness ==
    /\ last.kind = "deleteCustomer" /\ last.result = "400"
    /\ InFlight = {}
    /\ \E o \in StoredOrders : cust[orders[o].customer].st = "stored"

\* C26: a caller is let through the access control of a customer, order or
\* inquiry route exactly when it is admin, or the document is assigned to it
\* or was created by it, or it holds the permission flag of that resource type
C26_AccessRule ==
    [][\A r \in Slots :
          (req[r].kind = "access" /\ req[r].pc # "idle" /\ req'[r].pc = "idle") =>
             ((last'.result = "next") <=>
                 \/ req[r].user.role = "admin"
                 \/ req[r].resource.assignedTo = req[r].user.id
                 \/ req[r].resource.createdBy = req[r].user.id
                 \/ req[r].user.permissions[RouteFlag(req[r].resourceType)])]_vars

\* C27: whatever images were added, made primary and deleted, one request
\* after the other, a product has at most one primary image
C27_AtMostOnePrimary == \A p \in Products : PrimaryCount(images[p]) <= 1

\* an image was added as primary to a product that had a primary image
C27_Witness ==
    /\ last.kind = "addImage" /\ last.result = "200" /\ last.cond
    /\ \E p \in Products : Len(images[p]) >= 2 /\ PrimaryCount(images[p]) = 1

\* C28: when a conversion has failed after its customer write and before the
\* inquiry was stamped, the next conversion of the same inquiry stores no
\* further customer and ends with the inquiry converted to the customer the
\* failed attempt wrote
C28_RetryReusesCustomer ==
    [][\A r \in Slots :
          (/\ FailedAfterCustomerWrite
           /\ ireq[r].kind = "convert"
           /\ ireq[r].inquiry = ilast.inquiry)
          => /\ StoredCustomers' = StoredCustomers
             /\ ireq'[r].pc = "idle" =>
                   /\ ilast'.result = "200"
                   /\ inq'[ireq[r].inquiry].status = "converted"
                   /\ inq'[ireq[r].inquiry].convertedTo = ilast.wrote]_vars

\* a retry has ended: the customer the failed attempt created is the only
\* customer and the inquiry is converted to it
C28_Witness ==
    /\ InqInFlight = {}
    /\ ilast.kind = "convert" /\ ilast.result = "200"
    /\ assigned[ilast.inquiry] = 1
    /\ ipre.valid
    /\ ipre.inq[ilast.inquiry].convertedTo = NoCustomer
    /\ ipre.inq[ilast.inquiry].status # "converted"
    /\ ipre.customers # NoCustomers
    /\ \E c \in StoredCustomers :
          /\ ipre.customers[c].st = "stored" /\ ipre.customers[c].notes = 0
          /\ ipre.customers[c].assignedTo = ActingUser
          /\ inq[ilast.inquiry].convertedTo = c
          /\ customers[c].notes = 1
          /\ StoredCustomers = {c}

\* C29: a submission in flight, resent whenever it fails on a duplicate
\* number while nothing else runs, eventually stores an inquiry
C29_SubmissionEventuallyStored ==
    \A n \in 0..MaxInquiries :
        (/\ \E r \in Slots : ireq[r].kind = "submit" /\ ireq[r].pc # "s_notify"
         /\ Cardinality(InsertedInquiries) = n)
            ~> (Cardinality(InsertedInquiries) > n)

\* C30: an add-item request that ran alone was accepted only on a draft or
\* pending order and with stock of at least the quantity; accepted, it has
\* appended the item with totalPrice = quantity * unitPrice, recomputed the
\* totals and lowered the product's stock by the quantity; rejected, it has
\* left every order and every product's stock as they were
C30_AddItemContract ==
    (RanAlone /\ last.kind = "addItem") =>
        IF last.result = "200"
        THEN \E o \in StoredOrders :
                LET was == pre.orders[o]
                    new == orders[o]
                    item == new.items[Len(new.items)]
                IN  /\ was.st = "stored"
                    /\ was.status \in {"draft", "pending"}
                    /\ new.items = Append(was.items, item)
                    /\ item.totalPrice = item.quantity * item.unitPrice
                    /\ pre.stock[item.product] >= item.quantity
                    /\ new.subtotal = SumTotalPrice(new.items)
                    /\ new.totalAmount =
                           new.subtotal + new.tax + new.shippingCost - new.discount
                    /\ stock = [pre.stock EXCEPT ![item.product] = @ - item.quantity]
                    /\ \A other \in OrderIds \ {o} : orders[other] = pre.orders[other]
        ELSE stock = pre.stock /\ orders = pre.orders

====
